---- MODULE Spec2Model ----
(***************************************************************************)
(* A model of the_grid: the Engine (dispatcher) task, the calculators it   *)
(* owns and the bounded queues it writes to.                               *)
(*                                                                         *)
(* Spec     : the Engine task (src/src/engine/mod.rs).  Each arm of        *)
(*            Engine::run is one action; the message an arm receives is    *)
(*            the action's input, drawn from every message a holder of an  *)
(*            EngineTx can send.  The History and Presentation queues are  *)
(*            bounded queues with their consumers.                         *)
(* SpecCalc : one Rsi and one Volatility calculator driven by arbitrary    *)
(*            sequences of update / update_khist calls.                    *)
(*                                                                         *)
(* Option<T> is modelled as a sequence of length 0 (None) or 1 (Some).     *)
(* A calculator is modelled by the fields that decide its control flow and *)
(* whether update returns a value: stage, whether the 1m window is         *)
(* None / empty / non-empty, whether previous_bar is Some, whether value   *)
(* is Some.  The contents of bars and bundles enter through the two        *)
(* predicates of a bundle entry: `enough` (hist_tf holds at least          *)
(* period + 1 closes of prior periods) and `in_window` (some expected      *)
(* open_time of the current window is found in the buffer or in hist_1m).  *)
(***************************************************************************)
EXTENDS Integers, Sequences, FiniteSets, TLC

VARIABLES
    config,           \* Engine.config            : Option<AppConfig>
    warmup_pending,   \* Engine.warmup_pending    : Option<HashSet<Pair>>
    warmup_done,      \* Engine.warmup_done       : bool
    rsi,              \* Engine.indicators.rsi    : key -> Rsi
    vol,              \* Engine.indicators.vol    : key -> Volatility
    pending_results,  \* Engine.pending_results   : Vec<(usize, IndicatorValue)>
    engine_state,     \* position of Engine::run: running / stopped / failed / panicked
    history_q,        \* HistoryMessage::WarmUp in flight to the History Service
    history_open,     \* the HistoryRx still exists
    ui_q,             \* UiMessage::IndicatorResults in flight to the Presentation sink
    ui_open,          \* the UiRx still exists
    epoch,            \* history variable: number of reboots the Engine has processed
    reqs,             \* history variable: HistoryRequests sent per pair in this epoch
    primed,           \* history variable: keys a bundle entry was applied to in this epoch
    calc_rsi,         \* SpecCalc: one Rsi instance
    calc_vol,         \* SpecCalc: one Volatility instance
    calc_out,         \* SpecCalc: the last call and what it returned
    calc_calls,       \* SpecCalc: number of calls made
    ws_pc,            \* SpecWs: position of WsClient::run: top / streaming / sleeping / done / failed
    ws_config,        \* SpecWs: WsClient.config : Option<AppConfig>
    sent_start_reboot,\* SpecWs: the local of WsClient::run
    ws_stream,        \* SpecWs: config_for_stream and whether stream_once holds a socket
    ws_restart,       \* SpecWs: the last value of `restart` (enum Restart)
    ws_rx,            \* SpecWs: WsMessage::Config in flight to the Live Feed
    ws_rx_open,       \* SpecWs: a WsTx still exists
    ws_engine_open,   \* SpecWs: the EngineRx still exists
    ws_out,           \* SpecWs: the messages the Live Feed has sent to the Engine, in order
    lk_config,        \* SpecLookup: the AppConfig built by AppConfig::from_settings
    lk_query,         \* SpecLookup: the last (pair, indicator, timeframe) asked of index()
    lk_result,        \* SpecLookup: what index() returned for lk_query
    win_calc,         \* SpecWin: one calculator with its rings of 1m bars
    win_now,          \* SpecWin: the wall clock, what now_millis() reads
    win_call,         \* SpecWin: the last call: its input, the clock it read, what it returned
    win_fed,          \* SpecWin: open_time of the last live bar and whether the feed was in order
    win_calls,        \* SpecWin: number of calls made
    hist_config,      \* SpecWarmup: HistoryService.config : Option<AppConfig>
    hist_state,       \* SpecWarmup: "running" / "returned" (HistoryService::run)
    hist_jobs,        \* SpecWarmup: the spawned WarmupJobs still fetching
    hist_out,         \* SpecWarmup: KHistBundle messages in flight to the Engine
    hist_failed,      \* SpecWarmup: history: <<pair, epoch>> of the requests whose job failed
    mgr_length,       \* SpecManager: RsiConfig.length of the config the Engine holds
    job_pc,           \* SpecJob: position of WarmupJob::process: idle / rsi / sent
    job_event,        \* SpecJob: the WarmUpEvent and the Rsi part of the job's config
    job_i,            \* SpecJob: index of the loop over rsi_cfg.timeframes()
    job_starts,       \* SpecJob: rsi_histories: timeframe -> open_time its history starts at
    job_now,          \* SpecJob: the clock when the Engine applies the bundle
    fetch_pc,         \* SpecFetch: position of fetch_history: idle / loop / done / failed
    fetch_behind,     \* SpecFetch: now_millis() - start, how far the next request starts behind the clock
    fetch_recent,     \* SpecFetch: open_time - start of the bars of history that open at or after start
    fetch_call,       \* SpecFetch: history: the last turn of the loop, its batch and how long it took
    fetch_paged,      \* SpecFetch: history: a request after the first one was made
    fetch_slow,       \* SpecFetch: history: some request took as long as the span of bars it moved start over
    lim_calls,        \* SpecLimiter: RateLimiter.calls : VecDeque<Instant>, front first
    lim_now,          \* SpecLimiter: the monotonic clock, what Instant::now() reads
    lim_pc,           \* SpecLimiter: per task, its place in acquire: idle / locking / sleeping
    lim_wake,         \* SpecLimiter: per task, the instant its sleep ends
    lim_admitted,     \* SpecLimiter: history: the instants of the calls that were admitted, in order
    floor_call,       \* SpecFloor: the last call of Timeframe::nearest_ms, or None
    ring_rb,          \* SpecRing: the RingBuffer<Kline>, or None before RingBuffer::new
    ring_requested,   \* SpecRing: the capacity RingBuffer::new was asked for
    ring_call,        \* SpecRing: the last call, its argument, the buffer before it and what it returned
    bp_engine_q,      \* SpecBackpressure: the Engine's input queue
    bp_history_q,     \* SpecBackpressure: the History Service's input queue
    bp_ui_q,          \* SpecBackpressure: the batches in the Presentation queue
    bp_pc,            \* SpecBackpressure: where Engine::run is: select, send_warmup, send_ui, or ended
    bp_results,       \* SpecBackpressure: pending_results is not empty
    bp_hist,          \* SpecBackpressure: HistoryService: none (no config), ready, or returned
    bp_workers        \* SpecBackpressure: each WarmupJob task: idle, fetching or sending

engine_vars == <<config, warmup_pending, warmup_done, rsi, vol, pending_results,
                 engine_state, history_q, history_open, ui_q, ui_open,
                 epoch, reqs, primed>>

calc_vars == <<calc_rsi, calc_vol, calc_out, calc_calls>>

ws_vars == <<ws_pc, ws_config, sent_start_reboot, ws_stream, ws_restart,
             ws_rx, ws_rx_open, ws_engine_open, ws_out>>

lk_vars == <<lk_config, lk_query, lk_result>>

win_vars == <<win_calc, win_now, win_call, win_fed, win_calls>>

hist_vars == <<hist_config, hist_state, hist_jobs, hist_out, hist_failed>>

mgr_vars == <<mgr_length>>

job_vars == <<job_pc, job_event, job_i, job_starts, job_now>>

fetch_vars == <<fetch_pc, fetch_behind, fetch_recent, fetch_call, fetch_paged, fetch_slow>>

lim_vars == <<lim_calls, lim_now, lim_pc, lim_wake, lim_admitted>>

floor_vars == <<floor_call>>

ring_vars == <<ring_rb, ring_requested, ring_call>>

bp_vars == <<bp_engine_q, bp_history_q, bp_ui_q, bp_pc, bp_results, bp_hist, bp_workers>>

\* what the actions of one specification leave alone
not_engine_vars == <<calc_vars, ws_vars, lk_vars, win_vars, hist_vars, mgr_vars, job_vars, fetch_vars, lim_vars, floor_vars, ring_vars, bp_vars>>

not_calc_vars == <<engine_vars, ws_vars, lk_vars, win_vars, hist_vars, mgr_vars, job_vars, fetch_vars, lim_vars, floor_vars, ring_vars, bp_vars>>

not_ws_vars == <<engine_vars, calc_vars, lk_vars, win_vars, hist_vars, mgr_vars, job_vars, fetch_vars, lim_vars, floor_vars, ring_vars, bp_vars>>

not_lk_vars == <<engine_vars, calc_vars, ws_vars, win_vars, hist_vars, mgr_vars, job_vars, fetch_vars, lim_vars, floor_vars, ring_vars, bp_vars>>

not_win_vars == <<engine_vars, calc_vars, ws_vars, lk_vars, hist_vars, mgr_vars, job_vars, fetch_vars, lim_vars, floor_vars, ring_vars, bp_vars>>

\* the History Service shares the Engine's queues
not_warmup_vars == <<calc_vars, ws_vars, lk_vars, win_vars, mgr_vars, job_vars, fetch_vars, lim_vars, floor_vars, ring_vars, bp_vars>>

\* the manager of SpecManager drives the calculator of SpecWin
not_mgr_vars == <<engine_vars, calc_vars, ws_vars, lk_vars, hist_vars, job_vars, fetch_vars, lim_vars, floor_vars, ring_vars, bp_vars>>

not_job_vars == <<engine_vars, calc_vars, ws_vars, lk_vars, win_vars, hist_vars, mgr_vars, fetch_vars, lim_vars, floor_vars, ring_vars, bp_vars>>

not_fetch_vars == <<engine_vars, calc_vars, ws_vars, lk_vars, win_vars, hist_vars, mgr_vars, job_vars, lim_vars, floor_vars, ring_vars, bp_vars>>

not_lim_vars == <<engine_vars, calc_vars, ws_vars, lk_vars, win_vars, hist_vars, mgr_vars, job_vars, fetch_vars, floor_vars, ring_vars, bp_vars>>

not_floor_vars == <<engine_vars, calc_vars, ws_vars, lk_vars, win_vars, hist_vars, mgr_vars, job_vars, fetch_vars, lim_vars, ring_vars, bp_vars>>

not_ring_vars == <<engine_vars, calc_vars, ws_vars, lk_vars, win_vars, hist_vars, mgr_vars, job_vars, fetch_vars, lim_vars, floor_vars, bp_vars>>

not_bp_vars == <<engine_vars, calc_vars, ws_vars, lk_vars, win_vars, hist_vars, mgr_vars, job_vars, fetch_vars, lim_vars, floor_vars, ring_vars>>

vars == <<engine_vars, calc_vars, ws_vars, lk_vars, win_vars, hist_vars, mgr_vars, job_vars, fetch_vars, lim_vars, floor_vars, ring_vars, bp_vars>>

----------------------------------------------------------------------------
(* Bounds of the model.                                                    *)

\* capacity of the History and Presentation queues (the program's is 1024)
QueueCap == 1
\* a Kline is received only while fewer results than this are pending or
\* in flight to the Presentation sink
MaxInFlight == 2
\* Reboot and Config messages the Engine receives in one behaviour
MaxEpoch == 2
\* update / update_khist calls in one behaviour of SpecCalc
MaxCalls == 4
\* messages the Live Feed sends to the Engine in one behaviour of SpecWs
MaxWsOut == 4
\* longest pair list of a config of SpecLookup
MaxPairs == 3
\* longest timeframe list of one indicator in a config of SpecLookup
MaxTfs == 2
\* the bars and the clock of SpecWin lie in the minutes 0..MaxMinute
MaxMinute == 6
\* update / update_khist calls in one behaviour of SpecWin
MaxWinCalls == 2
\* RateLimiter.window of SpecLimiter, in ticks of its clock
LimWindow == 3
\* RateLimiter.max_calls of SpecLimiter
LimMaxCalls == 2
\* the tasks of SpecLimiter that call acquire
LimTasks == 2
\* the clock of SpecLimiter stops here
LimMaxNow == 7
\* longest hist_tf of a bundle of SpecValue
MaxHist == 3
\* update / update_khist calls on the calculator of SpecValue after the
\* call that built it
MaxValCalls == 2
\* the clock of SpecValue stops in this minute
ValMaxMinute == 6
\* the timestamps of SpecFloor lie this many windows on either side of 0
FloorMaxPeriods == 2
\* largest capacity asked of RingBuffer::new in SpecRing
RingMaxCap == 2
\* the bars of SpecRing open in the minutes 0..RingMaxMinute
RingMaxMinute == 2
\* capacity of each of the three queues of SpecBackpressure
BpQueueCap == 1
\* WarmupJobs alive at a time in SpecBackpressure
BpMaxJobs == 2

----------------------------------------------------------------------------
(* Option<T>                                                               *)

None == <<>>

Some(x) == <<x>>

IsSome(o) == o # <<>>

Unwrap(o) == o[1]

----------------------------------------------------------------------------
(* Types: pairs, timeframes, indicator kinds, configurations.              *)

PairNames == {"X", "Y"}

Timeframes == {"M1", "M5", "M15", "M30", "H1", "H4", "D1"}

IndicatorNames == {"Volatility", "Rsi"}

\* config A of the reconfiguration scenario: pairs = [X], both indicators
CfgA == [pairs |-> <<"X">>,
         vol_enabled |-> TRUE, vol_timeframes |-> <<"M5">>,
         rsi_enabled |-> TRUE, rsi_timeframes |-> <<"M1">>]

\* config B of the reconfiguration scenario: the pairs X and Y (Y first, so
\* that the slot indices of X differ between A and B), Volatility only
CfgB == [pairs |-> <<"Y", "X">>,
         vol_enabled |-> TRUE, vol_timeframes |-> <<"M5">>,
         rsi_enabled |-> FALSE, rsi_timeframes |-> <<>>]

Configs == {CfgA, CfgB}

Range(s) == {s[i] : i \in 1..Len(s)}

\* AppConfig::pairs
ConfigPairs(c) == Range(c.pairs)

----------------------------------------------------------------------------
(* IndexLookup (src/src/types/config.rs)                                   *)

\* the values of a pair id: `idx as u16`
PairIdModulus == 65536

timeframe_index(tf) ==
    CASE tf = "M1"  -> 0
      [] tf = "M5"  -> 1
      [] tf = "M15" -> 2
      [] tf = "M30" -> 3
      [] tf = "H1"  -> 4
      [] tf = "H4"  -> 5
      [] tf = "D1"  -> 6

\* the loop over one indicator's timeframes in IndexLookup::new:
\* st = [row |-> tf_idx -> Option<usize>, next_slot |-> usize]
RECURSIVE AssignSlots(_, _, _)
AssignSlots(st, tfs, i) ==
    IF i > Len(tfs) THEN st
    ELSE LET tf_idx == timeframe_index(tfs[i]) IN
         IF st.row[tf_idx] = None
         THEN AssignSlots([row |-> [st.row EXCEPT ![tf_idx] = Some(st.next_slot)],
                           next_slot |-> st.next_slot + 1], tfs, i + 1)
         ELSE AssignSlots(st, tfs, i + 1)

IndexLookupNew(pairs, volatility_enabled, volatility_timeframes, rsi_enabled, rsi_timeframes) ==
    LET empty_row == [t \in 0..6 |-> None]
        v == IF volatility_enabled
             THEN AssignSlots([row |-> empty_row, next_slot |-> 0],
                              volatility_timeframes, 1)
             ELSE [row |-> empty_row, next_slot |-> 0]
        r == IF rsi_enabled
             THEN AssignSlots([row |-> empty_row, next_slot |-> v.next_slot],
                              rsi_timeframes, 1)
             ELSE [row |-> empty_row, next_slot |-> v.next_slot]
    IN [pair_to_id |-> [p \in Range(pairs) |->
                           ((CHOOSE i \in 1..Len(pairs) :
                                /\ pairs[i] = p
                                /\ \A j \in 1..(i - 1) : pairs[j] # p) - 1) % PairIdModulus],
        slot_offsets |-> [k \in IndicatorNames |->
                            IF k = "Volatility" THEN v.row ELSE r.row],
        pair_stride |-> r.next_slot]

\* AppConfig::index_lookup, built in AppConfig::from_settings
ConfigIndexLookup(c) ==
    IndexLookupNew(c.pairs, c.vol_enabled, c.vol_timeframes,
                   c.rsi_enabled, c.rsi_timeframes)

\* an index that adds the pair id without the stride
Index_Mutant(lookup, pair, indicator, timeframe) ==
    IF pair \notin DOMAIN lookup.pair_to_id THEN None
    ELSE LET slot == lookup.slot_offsets[indicator][timeframe_index(timeframe)] IN
         IF slot = None THEN None
         ELSE Some(lookup.pair_to_id[pair] + Unwrap(slot))

\* IndexLookup::index : Option<usize>
Index(lookup, pair, indicator, timeframe) ==
    IF pair \notin DOMAIN lookup.pair_to_id THEN None
    ELSE LET slot == lookup.slot_offsets[indicator][timeframe_index(timeframe)] IN
         IF slot = None THEN None
         ELSE Some(lookup.pair_to_id[pair] * lookup.pair_stride + Unwrap(slot))

----------------------------------------------------------------------------
(* Rsi (src/src/indicators/rsi.rs)                                         *)

\* Rsi::new
RsiNew == [stage |-> "New", win |-> "None", prev |-> FALSE, val |-> FALSE]

\* Rsi::update_buffer touches only the pre-warmup ring
RsiUpdateBuffer(c) == c

\* Rsi::update_window: no window -> return; an empty window takes the bar;
\* a non-empty window stays non-empty in the replace, drop and push arms
\* (retain_by_open_time is followed by push).  update_previous_bar_from_last
\* replaces Some by Some and leaves None alone.
RsiUpdateWindow(c) ==
    IF c.win = "None" THEN c ELSE [c EXCEPT !.win = "NonEmpty"]

\* Rsi::set_value: returns early without a window, a last bar or previous_bar
RsiSetValue(c) ==
    IF c.win = "NonEmpty" /\ c.prev THEN [c EXCEPT !.val = TRUE] ELSE c

\* Rsi::set_window_1m_bars_from_history: window_1m_bars = Some(window)
RsiSetWindowFromHistory(c, input) ==
    [c EXCEPT !.win = IF input.in_window THEN "NonEmpty" ELSE "Empty"]

\* Rsi::set_previous_bar_from_history: None with fewer than period + 1 closes
RsiSetPreviousBarFromHistory(c, input) ==
    [c EXCEPT !.prev = input.enough]

\* Indicator::update_khist for Rsi
RsiUpdateKhist(c, input) ==
    LET c1 == RsiSetWindowFromHistory(c, input)
        c2 == RsiSetPreviousBarFromHistory(c1, input)
        c3 == RsiSetValue(c2)
    IN [c3 EXCEPT !.stage = "Ready"]

\* mutation: an update that forgets to leave stage New
RsiUpdate_Mutant(c) ==
    CASE c.stage \in {"New", "WarmUp"} ->
            [calc |-> RsiUpdateBuffer(c), out |-> FALSE]
      [] c.stage = "Ready" ->
            LET c2 == RsiSetValue(RsiUpdateWindow(c)) IN
            [calc |-> c2, out |-> c2.val]

\* Indicator::update for Rsi: [calc |-> the instance after the call,
\*                             out  |-> the call returned Some(value)]
RsiUpdate(c) ==
    CASE c.stage = "New" ->
            [calc |-> RsiUpdateBuffer([c EXCEPT !.stage = "WarmUp"]), out |-> FALSE]
      [] c.stage = "WarmUp" ->
            [calc |-> RsiUpdateBuffer(c), out |-> FALSE]
      [] c.stage = "Ready" ->
            LET c2 == RsiSetValue(RsiUpdateWindow(c)) IN
            [calc |-> c2, out |-> c2.val]

----------------------------------------------------------------------------
(* Volatility (src/src/indicators/volatility.rs)                           *)

\* Volatility::new
VolNew == [stage |-> "New", win |-> "None", val |-> FALSE]

\* Volatility::update_buffer touches only the pre-warmup ring
VolUpdateBuffer(c) == c

\* Volatility::update_window: no window -> return; otherwise the window is
\* non-empty afterwards (push on empty, push / replace_last / nothing else)
VolUpdateWindow(c) ==
    IF c.win = "None" THEN c ELSE [c EXCEPT !.win = "NonEmpty"]

\* Volatility::set_value: returns early without a window or a last bar
VolSetValue(c) ==
    IF c.win = "NonEmpty" THEN [c EXCEPT !.val = TRUE] ELSE c

\* Indicator::update_khist for Volatility
VolUpdateKhist(c, input) ==
    LET c1 == [c EXCEPT !.win = IF input.in_window THEN "NonEmpty" ELSE "Empty"]
        c2 == VolSetValue(c1)
    IN [c2 EXCEPT !.stage = "Ready"]

\* Indicator::update for Volatility
VolUpdate(c) ==
    CASE c.stage = "New" ->
            [calc |-> VolUpdateBuffer([c EXCEPT !.stage = "WarmUp"]), out |-> FALSE]
      [] c.stage = "WarmUp" ->
            [calc |-> VolUpdateBuffer(c), out |-> FALSE]
      [] c.stage = "Ready" ->
            LET c2 == VolSetValue(VolUpdateWindow(c)) IN
            [calc |-> c2, out |-> c2.val]

----------------------------------------------------------------------------
(* IndicatorManager (src/src/indicators/mod.rs)                            *)

\* IndicatorManager::key
Key(pair, timeframe, name) == <<pair, timeframe, name>>

\* a KlineHist entry of a bundle
KlineHist(pair, indicator, tf, enough, in_window) ==
    [pair |-> pair, indicator |-> indicator, indicator_tf |-> tf,
     enough |-> enough, in_window |-> in_window]

\* IndicatorManager::update_khist on m = [rsi, vol, panicked]:
\* get_mut(&key).unwrap() panics when the key has no calculator
ManagerUpdateKhist(m, khist) ==
    LET key == Key(khist.pair, khist.indicator_tf, khist.indicator) IN
    IF khist.indicator = "Rsi"
    THEN IF key \in DOMAIN m.rsi
         THEN [m EXCEPT !.rsi = [m.rsi EXCEPT ![key] = RsiUpdateKhist(m.rsi[key], khist)]]
         ELSE [m EXCEPT !.panicked = TRUE]
    ELSE IF key \in DOMAIN m.vol
         THEN [m EXCEPT !.vol = [m.vol EXCEPT ![key] = VolUpdateKhist(m.vol[key], khist)]]
         ELSE [m EXCEPT !.panicked = TRUE]

\* an update whose insert of a new calculator drops the other entries
ManagerUpdate_Mutant(m, pair, timeframe, indicator) ==
    LET key == Key(pair, timeframe, indicator) IN
    IF indicator = "Rsi"
    THEN LET entry == IF key \in DOMAIN m.rsi THEN m.rsi[key] ELSE RsiNew
             r == RsiUpdate(entry)
         IN [rsi |-> IF key \in DOMAIN m.rsi THEN (key :> r.calc) @@ m.rsi
                     ELSE (key :> r.calc),
             vol |-> m.vol, out |-> r.out]
    ELSE LET entry == IF key \in DOMAIN m.vol THEN m.vol[key] ELSE VolNew
             r == VolUpdate(entry)
         IN [rsi |-> m.rsi,
             vol |-> IF key \in DOMAIN m.vol THEN (key :> r.calc) @@ m.vol
                     ELSE (key :> r.calc),
             out |-> r.out]

\* IndicatorManager::update on m = [rsi, vol]: entry(key).or_insert_with(new),
\* then update; out tells whether the IndicatorResult holds Some(value)
ManagerUpdate(m, pair, timeframe, indicator) ==
    LET key == Key(pair, timeframe, indicator) IN
    IF indicator = "Rsi"
    THEN LET entry == IF key \in DOMAIN m.rsi THEN m.rsi[key] ELSE RsiNew
             r == RsiUpdate(entry)
         IN [rsi |-> (key :> r.calc) @@ m.rsi, vol |-> m.vol, out |-> r.out]
    ELSE LET entry == IF key \in DOMAIN m.vol THEN m.vol[key] ELSE VolNew
             r == VolUpdate(entry)
         IN [rsi |-> m.rsi, vol |-> (key :> r.calc) @@ m.vol, out |-> r.out]

\* IndicatorManager::new: both maps empty
EmptyMap == <<>>

----------------------------------------------------------------------------
(* Bundles (src/src/history/mod.rs)                                        *)

\* the bundle WarmupJob::process builds for `pair` under the History
\* Service's config c: the Volatility entries, then the Rsi entries
\* (src/src/history/mod.rs, lines 84-128)
WarmupBundle(c, pair, enough, in_window) ==
    (IF c.vol_enabled
     THEN [i \in 1..Len(c.vol_timeframes) |->
              KlineHist(pair, "Volatility", c.vol_timeframes[i], FALSE, in_window)]
     ELSE <<>>)
    \o
    (IF c.rsi_enabled
     THEN [i \in 1..Len(c.rsi_timeframes) |->
              KlineHist(pair, "Rsi", c.rsi_timeframes[i], enough, in_window)]
     ELSE <<>>)

----------------------------------------------------------------------------
(* Engine (src/src/engine/mod.rs)                                          *)

\* Engine::push_result on st = [rsi, vol, pending_results]; an entry of
\* pending_results is (idx, IndicatorValue); key and epoch are history
\* fields recording the calculator and the reboot epoch that produced it
PushResult(st, index_lookup, pair, indicator, timeframe, ep) ==
    LET idx == Index(index_lookup, pair, indicator, timeframe) IN
    IF IsSome(idx)
    THEN [st EXCEPT !.pending_results =
             Append(@, [idx |-> Unwrap(idx), value |-> indicator,
                        key |-> Key(pair, timeframe, indicator), epoch |-> ep])]
    ELSE st

\* one of the two loops of Engine::handle_kline: update every timeframe of
\* `indicator` in order and push each value that update returns
RECURSIVE UpdateTimeframes(_, _, _, _, _, _, _)
UpdateTimeframes(st, index_lookup, pair, indicator, tfs, i, ep) ==
    IF i > Len(tfs) THEN st
    ELSE LET u  == ManagerUpdate([rsi |-> st.rsi, vol |-> st.vol], pair, tfs[i], indicator)
             s1 == [st EXCEPT !.rsi = u.rsi, !.vol = u.vol]
             s2 == IF u.out
                   THEN PushResult(s1, index_lookup, pair, indicator, tfs[i], ep)
                   ELSE s1
         IN UpdateTimeframes(s2, index_lookup, pair, indicator, tfs, i + 1, ep)

\* Engine::handle_kline on st = [rsi, vol, pending_results]
HandleKline(cfg, st, pair, ep) ==
    IF cfg = None THEN st
    ELSE LET c  == Unwrap(cfg)
             il == ConfigIndexLookup(c)
             s1 == IF c.rsi_enabled
                   THEN UpdateTimeframes(st, il, pair, "Rsi", c.rsi_timeframes, 1, ep)
                   ELSE st
         IN IF c.vol_enabled
            THEN UpdateTimeframes(s1, il, pair, "Volatility", c.vol_timeframes, 1, ep)
            ELSE s1

\* Engine::handle_khist_bundle on m = [rsi, vol, panicked]: the entries in
\* order; a panic ends the task at the entry that raised it
RECURSIVE HandleKhistBundle(_, _, _)
HandleKhistBundle(m, event, i) ==
    IF i > Len(event) \/ m.panicked THEN m
    ELSE HandleKhistBundle(ManagerUpdateKhist(m, event[i]), event, i + 1)

\* history: the keys of the entries of `event` that handle_khist_bundle
\* applies to m = [rsi, vol, panicked] (those before the first missing key)
AppliedKeys(m, event) ==
    LET has(i) == Key(event[i].pair, event[i].indicator_tf, event[i].indicator)
                      \in (DOMAIN m.rsi \cup DOMAIN m.vol)
    IN {Key(event[i].pair, event[i].indicator_tf, event[i].indicator) :
            i \in {i \in 1..Len(event) : \A j \in 1..i : has(j)}}

\* mutation: a reboot that rebuilds warmup_pending as the empty set
RebootPending_Mutant(cfg) ==
    IF IsSome(cfg) THEN Some({}) ELSE None

\* the number of results in the batches of q
RECURSIVE BatchedResults(_)
BatchedResults(q) ==
    IF q = <<>> THEN 0 ELSE Len(Head(q).results) + BatchedResults(Tail(q))

\* Engine::handle_reboot: the new value of warmup_pending
RebootPending(cfg) ==
    IF IsSome(cfg) THEN Some(ConfigPairs(Unwrap(cfg))) ELSE None

\* mutation: a flush that forgets the is_empty test
FlushSends_Mutant(cfg, pending) == IsSome(cfg)

\* Engine::flush_indicator_results: does this tick send a batch?
FlushSends(cfg, pending) == IsSome(cfg) /\ pending # <<>>

\* the batch a flush sends: std::mem::take(&mut self.pending_results);
\* epoch is a history field recording the epoch in which it was sent
FlushBatch(pending, ep) == [results |-> pending, epoch |-> ep]

\* mutation: a gate that sends the request but leaves the pair in warmup_pending
KlineGate_Mutant(pending, done, pair) ==
    IF done
    THEN [handle |-> TRUE, send |-> FALSE, pending |-> pending, done |-> done]
    ELSE IF pending = None
    THEN [handle |-> FALSE, send |-> FALSE, pending |-> pending, done |-> done]
    ELSE [handle |-> TRUE, send |-> pair \in Unwrap(pending),
          pending |-> pending, done |-> done]

\* the warmup gate of the Kline arm of Engine::run (lines 103-119):
\* [handle  |-> handle_kline is reached,
\*  send    |-> should_send,
\*  pending |-> warmup_pending afterwards, done |-> warmup_done afterwards]
KlineGate(pending, done, pair) ==
    IF done
    THEN [handle |-> TRUE, send |-> FALSE, pending |-> pending, done |-> done]
    ELSE IF pending = None
    THEN [handle |-> FALSE, send |-> FALSE, pending |-> pending, done |-> done]
    ELSE IF pair \in Unwrap(pending)
    THEN [handle |-> TRUE, send |-> TRUE,
          pending |-> Some(Unwrap(pending) \ {pair}),
          done |-> (Unwrap(pending) \ {pair} = {})]
    ELSE [handle |-> TRUE, send |-> FALSE, pending |-> pending, done |-> done]

----------------------------------------------------------------------------
(* Initial state: Engine::new, empty queues, fresh calculators.            *)

EngineInit ==
    /\ config = None
    /\ warmup_pending = None
    /\ warmup_done = FALSE
    /\ rsi = EmptyMap
    /\ vol = EmptyMap
    /\ pending_results = <<>>
    /\ engine_state = "running"
    /\ history_q = <<>>
    /\ history_open = TRUE
    /\ ui_q = <<>>
    /\ ui_open = TRUE
    /\ epoch = 0
    /\ reqs = [p \in PairNames |-> 0]
    /\ primed = {}

CalcInit ==
    /\ calc_rsi = RsiNew
    /\ calc_vol = VolNew
    /\ calc_out = [call |-> "new", out |-> FALSE]
    /\ calc_calls = 0

\* WsClient::new and the first line of WsClient::run
WsInit ==
    /\ ws_pc = "top"
    /\ ws_config = None
    /\ sent_start_reboot = FALSE
    /\ ws_stream = None
    /\ ws_restart = "none"
    /\ ws_rx = <<>>
    /\ ws_rx_open = TRUE
    /\ ws_engine_open = TRUE
    /\ ws_out = <<>>

\* no preset activated yet: DashboardApp.active_config = None
LookupInit ==
    /\ lk_config = None
    /\ lk_query = None
    /\ lk_result = None

\* no calculator built yet
WinInit ==
    /\ win_calc = None
    /\ win_now = 0
    /\ win_call = [op |-> "none"]
    /\ win_fed = [last |-> None, in_order |-> TRUE]
    /\ win_calls = 0

\* the Engine of SpecManager has no config yet
ManagerInit == mgr_length = None

\* no WarmupJob of SpecJob is spawned yet
JobInit ==
    /\ job_pc = "idle"
    /\ job_event = None
    /\ job_i = 0
    /\ job_starts = <<>>
    /\ job_now = 0

\* fetch_history of SpecFetch is not called yet
FetchInit ==
    /\ fetch_pc = "idle"
    /\ fetch_behind = 0
    /\ fetch_recent = {}
    /\ fetch_call = None
    /\ fetch_paged = FALSE
    /\ fetch_slow = FALSE

\* the tasks of SpecLimiter
Tasks == 1..LimTasks

\* RateLimiter::new: no call recorded; no task has called acquire
LimiterInit ==
    /\ lim_calls = <<>>
    /\ lim_now = 0
    /\ lim_pc = [t \in Tasks |-> "idle"]
    /\ lim_wake = [t \in Tasks |-> 0]
    /\ lim_admitted = <<>>

\* HistoryService::new: no config, no job spawned
HistoryInit ==
    /\ hist_config = None
    /\ hist_state = "running"
    /\ hist_jobs = {}
    /\ hist_out = <<>>
    /\ hist_failed = {}

FloorInit == floor_call = None

RingInit ==
    /\ ring_rb = None
    /\ ring_requested = 0
    /\ ring_call = [op |-> "none"]

\* the WarmupJob tasks of SpecBackpressure
BpJobs == 1..BpMaxJobs

BackpressureInit ==
    /\ bp_engine_q = <<>>
    /\ bp_history_q = <<>>
    /\ bp_ui_q = 0
    /\ bp_pc = "select"
    /\ bp_results = FALSE
    /\ bp_hist = "none"
    /\ bp_workers = [w \in BpJobs |-> "idle"]

Init == EngineInit /\ CalcInit /\ WsInit /\ LookupInit /\ WinInit /\ HistoryInit
        /\ ManagerInit /\ JobInit /\ FetchInit /\ LimiterInit /\ FloorInit /\ RingInit /\ BackpressureInit

----------------------------------------------------------------------------
(* The Engine task: one action per arm of Engine::run.                     *)

\* the flush_interval.tick() arm: flush_indicator_results().await?
\* A send on a full queue waits (the action is not enabled); a send on a
\* closed queue fails after the batch was taken and `?` ends the task.
EngineFlush ==
    /\ engine_state = "running"
    /\ IF FlushSends(config, pending_results)
       THEN /\ pending_results' = <<>>
            /\ IF ui_open
               THEN /\ Len(ui_q) < QueueCap
                    /\ ui_q' = Append(ui_q, FlushBatch(pending_results, epoch))
                    /\ UNCHANGED engine_state
               ELSE /\ engine_state' = "failed"
                    /\ UNCHANGED ui_q
       ELSE UNCHANGED <<pending_results, ui_q, engine_state>>
    /\ UNCHANGED <<config, warmup_pending, warmup_done, rsi, vol,
                   history_q, history_open, ui_open, epoch, reqs, primed, not_engine_vars>>

\* rx.recv() returned None (every sender is gone): return Ok(())
EngineClosed ==
    /\ engine_state = "running"
    /\ engine_state' = "stopped"
    /\ UNCHANGED <<config, warmup_pending, warmup_done, rsi, vol, pending_results,
                   history_q, history_open, ui_q, ui_open, epoch,
                   reqs, primed, not_engine_vars>>

\* mutation: a reboot that keeps the calculators
HandleReboot_Mutant(cfg) ==
    /\ rsi' = rsi
    /\ vol' = vol
    /\ warmup_pending' = RebootPending(cfg)
    /\ warmup_done' = FALSE
    /\ epoch' = epoch + 1
    /\ reqs' = [p \in PairNames |-> 0]
    /\ primed' = {}

\* Engine::handle_reboot
HandleReboot(cfg) ==
    /\ rsi' = EmptyMap
    /\ vol' = EmptyMap
    /\ warmup_pending' = RebootPending(cfg)
    /\ warmup_done' = FALSE
    /\ epoch' = epoch + 1
    /\ reqs' = [p \in PairNames |-> 0]
    /\ primed' = {}

\* EngineMessage::Reboot(event) => self.handle_reboot(event)
EngineReboot ==
    /\ engine_state = "running"
    /\ epoch < MaxEpoch
    /\ HandleReboot(config)
    /\ UNCHANGED <<config, pending_results, engine_state, history_q,
                   history_open, ui_q, ui_open, not_engine_vars>>

\* EngineMessage::Config(config): replace the snapshot, then handle_reboot
EngineConfig ==
    /\ engine_state = "running"
    /\ epoch < MaxEpoch
    /\ \E c \in Configs :
          /\ config' = Some(c)
          /\ HandleReboot(Some(c))
    /\ UNCHANGED <<pending_results, engine_state, history_q,
                   history_open, ui_q, ui_open, not_engine_vars>>

\* EngineMessage::Kline(event): the warmup gate, send_warmup().await?, then
\* handle_kline.  A send on a full queue waits (the action is not enabled);
\* a send on a closed queue fails and `?` ends the task before handle_kline.
EngineKlineOf(pair) ==
    /\ engine_state = "running"
    /\ Len(pending_results) + BatchedResults(ui_q) < MaxInFlight
    /\    LET gate == KlineGate(warmup_pending, warmup_done, pair)
              st   == [rsi |-> rsi, vol |-> vol, pending_results |-> pending_results]
              st2  == IF gate.handle THEN HandleKline(config, st, pair, epoch) ELSE st
          IN /\ warmup_pending' = gate.pending
             /\ warmup_done' = gate.done
             /\ IF gate.send /\ ~history_open
                THEN /\ engine_state' = "failed"
                     /\ UNCHANGED <<rsi, vol, pending_results, history_q, reqs>>
                ELSE /\ rsi' = st2.rsi
                     /\ vol' = st2.vol
                     /\ pending_results' = st2.pending_results
                     /\ UNCHANGED engine_state
                     /\ IF gate.send
                        THEN /\ Len(history_q) < QueueCap
                             /\ history_q' = Append(history_q, pair)
                             /\ reqs' = [reqs EXCEPT ![pair] = @ + 1]
                        ELSE UNCHANGED <<history_q, reqs>>
    /\ UNCHANGED <<config, history_open, ui_q, ui_open, epoch, primed, not_engine_vars>>

\* the Kline arm for the bar of any pair
EngineKline == \E pair \in PairNames : EngineKlineOf(pair)

\* the bundles the Engine receives: the history may be too short for the
\* RSI seed, and holds a bar of the current window (SpecCalc also primes
\* calculators from bundles that hold none)
EngineBundleInputs == [enough : BOOLEAN, in_window : {TRUE}]

\* EngineMessage::KHistBundle(event) => self.handle_khist_bundle(event);
\* the bundle is any bundle a WarmupJob builds (for a pair, under a config)
EngineKHistBundle ==
    /\ engine_state = "running"
    /\ \E c \in Configs, p \in PairNames, input \in EngineBundleInputs :
          LET event == WarmupBundle(c, p, input.enough, input.in_window)
              m0 == [rsi |-> rsi, vol |-> vol, panicked |-> FALSE]
              m  == HandleKhistBundle(m0, event, 1)
          IN /\ rsi' = m.rsi
             /\ vol' = m.vol
             /\ engine_state' = IF m.panicked THEN "panicked" ELSE engine_state
             /\ primed' = primed \cup AppliedKeys(m0, event)
    /\ UNCHANGED <<config, warmup_pending, warmup_done, pending_results,
                   history_q, history_open, ui_q, ui_open, epoch, reqs, not_engine_vars>>

----------------------------------------------------------------------------
(* The consumers of the two queues the Engine writes to.                   *)

\* HistoryService::run receives one message (src/src/history/mod.rs, line 32)
HistoryRecv ==
    /\ history_open
    /\ history_q # <<>>
    /\ history_q' = Tail(history_q)
    /\ UNCHANGED <<config, warmup_pending, warmup_done, rsi, vol, pending_results,
                   engine_state, history_open, ui_q, ui_open,
                   epoch, reqs, primed, not_engine_vars>>

\* HistoryService::run returns and drops its receiver
\* (src/src/history/mod.rs, lines 35-37 and 53-54)
HistoryExit ==
    /\ engine_state = "running"
    /\ history_open
    /\ history_open' = FALSE
    /\ history_q' = <<>>
    /\ UNCHANGED <<config, warmup_pending, warmup_done, rsi, vol, pending_results,
                   engine_state, ui_q, ui_open,
                   epoch, reqs, primed, not_engine_vars>>

\* the Presentation sink takes one batch (UiRx::try_recv)
UiRecv ==
    /\ ui_open
    /\ ui_q # <<>>
    /\ ui_q' = Tail(ui_q)
    /\ UNCHANGED <<config, warmup_pending, warmup_done, rsi, vol, pending_results,
                   engine_state, history_q, history_open,
                   ui_open, epoch, reqs, primed, not_engine_vars>>

\* the Presentation sink goes away and drops its receiver
UiExit ==
    /\ engine_state = "running"
    /\ ui_open
    /\ ui_open' = FALSE
    /\ ui_q' = <<>>
    /\ UNCHANGED <<config, warmup_pending, warmup_done, rsi, vol, pending_results,
                   engine_state, history_q, history_open,
                   epoch, reqs, primed, not_engine_vars>>

Next ==
    \/ EngineFlush
    \/ EngineClosed
    \/ EngineReboot
    \/ EngineConfig
    \/ EngineKline
    \/ EngineKHistBundle
    \/ HistoryRecv
    \/ HistoryExit
    \/ UiRecv
    \/ UiExit

Spec == Init /\ [][Next]_vars

----------------------------------------------------------------------------
(* SpecCalc: one instance of each calculator under every sequence of at    *)
(* most MaxCalls calls of Indicator::update and Indicator::update_khist    *)
(* (prime).  calc_out records the call just made and whether it returned   *)
(* Some(value).                                                            *)

BundleInputs == [enough : BOOLEAN, in_window : BOOLEAN]

\* Rsi::update(input)
CalcRsiUpdate ==
    /\ calc_calls < MaxCalls
    /\ LET r == RsiUpdate(calc_rsi) IN
          /\ calc_rsi' = r.calc
          /\ calc_out' = [call |-> "rsi_update", out |-> r.out]
    /\ calc_calls' = calc_calls + 1
    /\ UNCHANGED <<calc_vol, not_calc_vars>>

\* Rsi::update_khist(input)
CalcRsiUpdateKhist ==
    /\ calc_calls < MaxCalls
    /\ \E input \in BundleInputs :
          calc_rsi' = RsiUpdateKhist(calc_rsi, input)
    /\ calc_out' = [call |-> "rsi_update_khist", out |-> FALSE]
    /\ calc_calls' = calc_calls + 1
    /\ UNCHANGED <<calc_vol, not_calc_vars>>

\* Volatility::update(input)
CalcVolUpdate ==
    /\ calc_calls < MaxCalls
    /\ LET r == VolUpdate(calc_vol) IN
          /\ calc_vol' = r.calc
          /\ calc_out' = [call |-> "vol_update", out |-> r.out]
    /\ calc_calls' = calc_calls + 1
    /\ UNCHANGED <<calc_rsi, not_calc_vars>>

\* Volatility::update_khist(input)
CalcVolUpdateKhist ==
    /\ calc_calls < MaxCalls
    /\ \E input \in BundleInputs :
          calc_vol' = VolUpdateKhist(calc_vol, input)
    /\ calc_out' = [call |-> "vol_update_khist", out |-> FALSE]
    /\ calc_calls' = calc_calls + 1
    /\ UNCHANGED <<calc_rsi, not_calc_vars>>

NextCalc ==
    \/ CalcRsiUpdate
    \/ CalcRsiUpdateKhist
    \/ CalcVolUpdate
    \/ CalcVolUpdateKhist

SpecCalc == Init /\ [][NextCalc]_vars

----------------------------------------------------------------------------
(* SpecWs: the Live Feed (src/src/ws.rs).  WsClient::run is a loop of      *)
(* three waits: for the first Config (top), for the stream or a Config     *)
(* (streaming, the select!), and for the reconnect delay (sleeping).       *)
(* ws_out is the sequence of messages it has handed to the Engine queue.   *)

\* a config with an empty pair list (SettingsForm::pairs filters nothing in)
CfgNoPairs == [pairs |-> <<>>,
               vol_enabled |-> TRUE, vol_timeframes |-> <<"M5">>,
               rsi_enabled |-> FALSE, rsi_timeframes |-> <<>>]

WsConfigs == {CfgA, CfgB, CfgNoPairs}

\* EngineMessage::Reboot(RebootEvent { reason })
RebootMsg(reason) == [type |-> "Reboot", arg |-> reason]

\* EngineMessage::Kline(event)
KlineMsg(pair) == [type |-> "Kline", arg |-> pair]

\* build_stream_url: Err(WsError::EmptyPairs) for an empty pair list
BuildStreamUrlOk(cfg) == cfg.pairs # <<>>

\* mutation: the loop skips the reconnect delay after a stream ended
StreamEnded_Mutant(restart, reason) ==
    /\ ws_restart' = restart
    /\ ws_stream' = None
    /\ IF ws_engine_open
       THEN /\ Len(ws_out) < MaxWsOut
            /\ ws_out' = Append(ws_out, RebootMsg(reason))
            /\ ws_pc' = "top"
       ELSE /\ ws_pc' = "failed"
            /\ UNCHANGED ws_out

\* the arms Restart::Stream(Ok(())) and Restart::Stream(Err(err)) of
\* WsClient::run: send_reboot(reason).await?, then the loop goes to sleep;
\* a failed send ends the task with the error
StreamEnded(restart, reason) ==
    /\ ws_restart' = restart
    /\ ws_stream' = None
    /\ IF ws_engine_open
       THEN /\ Len(ws_out) < MaxWsOut
            /\ ws_out' = Append(ws_out, RebootMsg(reason))
            /\ ws_pc' = "sleeping"
       ELSE /\ ws_pc' = "failed"
            /\ UNCHANGED ws_out

\* the top of the loop: take the config held or wait for the first one
\* (return Ok(()) when the queue is closed), send the start reboot once,
\* create the stream future and enter the select!
WsLoopTop ==
    /\ ws_pc = "top"
    /\ IF ws_config = None /\ ws_rx = <<>>
       THEN /\ ~ws_rx_open
            /\ ws_pc' = "done"
            /\ UNCHANGED <<ws_config, sent_start_reboot, ws_stream, ws_rx, ws_out>>
       ELSE LET cfg == IF ws_config = None THEN Head(ws_rx) ELSE Unwrap(ws_config) IN
            /\ ws_config' = Some(cfg)
            /\ ws_rx' = IF ws_config = None THEN Tail(ws_rx) ELSE ws_rx
            /\ IF ~sent_start_reboot /\ ~ws_engine_open
               THEN /\ ws_pc' = "failed"
                    /\ UNCHANGED <<sent_start_reboot, ws_stream, ws_out>>
               ELSE /\ IF ~sent_start_reboot
                       THEN /\ Len(ws_out) < MaxWsOut
                            /\ ws_out' = Append(ws_out, RebootMsg("ws starting"))
                       ELSE UNCHANGED ws_out
                    /\ sent_start_reboot' = TRUE
                    /\ ws_stream' = Some([config |-> cfg, connected |-> FALSE])
                    /\ ws_pc' = "streaming"
    /\ UNCHANGED <<ws_restart, ws_rx_open, ws_engine_open, not_ws_vars>>

\* stream_once: build_stream_url and connect_async succeed
WsConnect ==
    /\ ws_pc = "streaming"
    /\ ~Unwrap(ws_stream).connected
    /\ BuildStreamUrlOk(Unwrap(ws_stream).config)
    /\ ws_stream' = Some([Unwrap(ws_stream) EXCEPT !.connected = TRUE])
    /\ UNCHANGED <<ws_pc, ws_config, sent_start_reboot, ws_restart, ws_rx,
                   ws_rx_open, ws_engine_open, ws_out, not_ws_vars>>

\* stream_once returns Err before it holds a socket: build_stream_url fails
\* (empty pair list) or connect_async fails
WsConnectFailed ==
    /\ ws_pc = "streaming"
    /\ ~Unwrap(ws_stream).connected
    /\ StreamEnded("Stream_Err", "ws error")
    /\ UNCHANGED <<ws_config, sent_start_reboot, ws_rx, ws_rx_open,
                   ws_engine_open, not_ws_vars>>

\* stream_once reads a text frame and handle_payload forwards its kline; a
\* failed send makes stream_once return Err
WsForwardKline ==
    /\ ws_pc = "streaming"
    /\ Unwrap(ws_stream).connected
    /\ IF ws_engine_open
       THEN /\ Len(ws_out) < MaxWsOut
            /\ \E pair \in ConfigPairs(Unwrap(ws_stream).config) :
                  ws_out' = Append(ws_out, KlineMsg(pair))
            /\ UNCHANGED <<ws_pc, ws_stream, ws_restart>>
       ELSE StreamEnded("Stream_Err", "ws error")
    /\ UNCHANGED <<ws_config, sent_start_reboot, ws_rx, ws_rx_open,
                   ws_engine_open, not_ws_vars>>

\* stream_once reads Message::Close or the end of the stream: Ok(())
WsStreamClosed ==
    /\ ws_pc = "streaming"
    /\ Unwrap(ws_stream).connected
    /\ StreamEnded("Stream_Ok", "ws closed")
    /\ UNCHANGED <<ws_config, sent_start_reboot, ws_rx, ws_rx_open,
                   ws_engine_open, not_ws_vars>>

\* stream_once reads a transport error: Err
WsStreamError ==
    /\ ws_pc = "streaming"
    /\ Unwrap(ws_stream).connected
    /\ StreamEnded("Stream_Err", "ws error")
    /\ UNCHANGED <<ws_config, sent_start_reboot, ws_rx, ws_rx_open,
                   ws_engine_open, not_ws_vars>>

\* mutation: a config update announces itself to the Engine with a Reboot
ConfigUpdated_Mutant(cfg) ==
    /\ ws_config' = Some(cfg)
    /\ ws_restart' = "ConfigUpdate"
    /\ ws_stream' = None
    /\ ws_pc' = "sleeping"
    /\ Len(ws_out) < MaxWsOut
    /\ ws_out' = Append(ws_out, RebootMsg("config update"))

\* the select! arm Some(WsMessage::Config(cfg)) and the match arm
\* Restart::ConfigUpdate: keep the config, send nothing, go to sleep
ConfigUpdated(cfg) ==
    /\ ws_config' = Some(cfg)
    /\ ws_restart' = "ConfigUpdate"
    /\ ws_stream' = None
    /\ ws_pc' = "sleeping"
    /\ UNCHANGED ws_out

\* the select! receives a Config first: the stream future is dropped
WsConfigUpdate ==
    /\ ws_pc = "streaming"
    /\ ws_rx # <<>>
    /\ ConfigUpdated(Head(ws_rx))
    /\ ws_rx' = Tail(ws_rx)
    /\ UNCHANGED <<sent_start_reboot, ws_rx_open, ws_engine_open, not_ws_vars>>

\* the select! receives None: Restart::ChannelClosed => return Ok(())
WsChannelClosed ==
    /\ ws_pc = "streaming"
    /\ ws_rx = <<>>
    /\ ~ws_rx_open
    /\ ws_restart' = "ChannelClosed"
    /\ ws_stream' = None
    /\ ws_pc' = "done"
    /\ UNCHANGED <<ws_config, sent_start_reboot, ws_rx, ws_rx_open,
                   ws_engine_open, ws_out, not_ws_vars>>

\* sleep(self.reconnect_delay) is over
WsWake ==
    /\ ws_pc = "sleeping"
    /\ ws_pc' = "top"
    /\ UNCHANGED <<ws_config, sent_start_reboot, ws_stream, ws_restart, ws_rx,
                   ws_rx_open, ws_engine_open, ws_out, not_ws_vars>>

\* the UI sends a Config to the Live Feed (src/src/ui/app.rs)
UiSendWsConfig ==
    /\ ws_rx_open
    /\ Len(ws_rx) < QueueCap
    /\ \E c \in WsConfigs : ws_rx' = Append(ws_rx, c)
    /\ UNCHANGED <<ws_pc, ws_config, sent_start_reboot, ws_stream, ws_restart,
                   ws_rx_open, ws_engine_open, ws_out, not_ws_vars>>

\* the UI goes away and drops its WsTx
UiDropWsTx ==
    /\ ws_rx_open
    /\ ws_rx_open' = FALSE
    /\ UNCHANGED <<ws_pc, ws_config, sent_start_reboot, ws_stream, ws_restart,
                   ws_rx, ws_engine_open, ws_out, not_ws_vars>>

\* the Engine task ends and drops its EngineRx
WsEngineGone ==
    /\ ws_engine_open
    /\ ws_engine_open' = FALSE
    /\ UNCHANGED <<ws_pc, ws_config, sent_start_reboot, ws_stream, ws_restart,
                   ws_rx, ws_rx_open, ws_out, not_ws_vars>>

NextWs ==
    \/ WsLoopTop
    \/ WsConnect
    \/ WsConnectFailed
    \/ WsForwardKline
    \/ WsStreamClosed
    \/ WsStreamError
    \/ WsConfigUpdate
    \/ WsChannelClosed
    \/ WsWake
    \/ UiSendWsConfig
    \/ UiDropWsTx
    \/ WsEngineGone

SpecWs == Init /\ [][NextWs]_vars

----------------------------------------------------------------------------
(* SpecLookup: IndexLookup (src/src/types/config.rs) built from the        *)
(* settings form and asked for slots.                                      *)

\* the sequences over S of length at most n
SeqsUpTo(S, n) == UNION {[1..k -> S] : k \in 0..n}

\* the timeframes a settings form of SpecLookup can tick
LookupTimeframes == {"M5", "M15"}

\* IndexLookup::pair_stride
PairStride(lookup) == lookup.pair_stride

\* IndexLookup::pair_count: pair_to_id.len()
PairCount(lookup) == Cardinality(DOMAIN lookup.pair_to_id)

\* AppConfig::from_settings: SettingsForm::pairs keeps the order and the
\* duplicates of the pair field and may return the empty list
LookupFromSettings ==
    /\ lk_config = None
    /\ \E pairs \in SeqsUpTo(PairNames, MaxPairs), ve \in BOOLEAN, re \in BOOLEAN,
          vt \in SeqsUpTo(LookupTimeframes, MaxTfs), rt \in SeqsUpTo(LookupTimeframes, MaxTfs) :
          lk_config' = Some([pairs |-> pairs, vol_enabled |-> ve, vol_timeframes |-> vt,
                             rsi_enabled |-> re, rsi_timeframes |-> rt])
    /\ lk_query' = None
    /\ lk_result' = None
    /\ UNCHANGED not_lk_vars

\* a caller asks index(pair, indicator, timeframe) of the config's lookup
LookupIndex ==
    /\ IsSome(lk_config)
    /\ \E pair \in PairNames, indicator \in IndicatorNames, tf \in LookupTimeframes \cup {"M1"} :
          /\ lk_query' = Some([pair |-> pair, indicator |-> indicator, timeframe |-> tf])
          /\ lk_result' = Some(Index(ConfigIndexLookup(Unwrap(lk_config)), pair, indicator, tf))
    /\ UNCHANGED <<lk_config, not_lk_vars>>

NextLookup ==
    \/ LookupFromSettings
    \/ LookupIndex

SpecLookup == Init /\ [][NextLookup]_vars

----------------------------------------------------------------------------
(* SpecWin: one calculator with its two rings of 1m bars spelled out        *)
(* (src/src/indicators/rsi.rs, volatility.rs, src/src/types/ring_buffer.rs, *)
(* timeframe.rs).  A bar is a Kline without its volume, which no value      *)
(* depends on.  Prices are whole numbers and the f64 arithmetic of the      *)
(* calculators is carried out exactly, on fractions [n, d] in lowest terms  *)
(* with d > 0; the rounding of f64 and of the final `as f32` is not         *)
(* modelled (it is monotone and leaves 0 and 100 as they are).              *)

\* greatest common divisor of two naturals
RECURSIVE GCD(_, _)
GCD(a, b) == IF b = 0 THEN a ELSE GCD(b, a % b)

\* |k|
Abs(k) == IF k < 0 THEN -k ELSE k

\* the fraction n / d (d # 0) in lowest terms with a positive denominator
Frac(n, d) ==
    LET g == GCD(Abs(n), Abs(d))
        sgn == IF d < 0 THEN -1 ELSE 1
    IN [n |-> sgn * (n \div g), d |-> sgn * (d \div g)]

\* a whole number as a fraction
Whole(k) == [n |-> k, d |-> 1]

FracAdd(x, y) == Frac(x.n * y.d + y.n * x.d, x.d * y.d)

FracSub(x, y) == Frac(x.n * y.d - y.n * x.d, x.d * y.d)

FracMul(x, y) == Frac(x.n * y.n, x.d * y.d)

\* x / y for y # 0
FracDiv(x, y) == Frac(x.n * y.d, x.d * y.n)

FracLt(x, y) == x.n * y.d < y.n * x.d

FracLe(x, y) == x.n * y.d <= y.n * x.d

\* f64::trunc: the whole part of a fraction, rounded towards zero
trunc(x) ==
    IF x.n >= 0 THEN Whole(x.n \div x.d) ELSE Whole(-((-x.n) \div x.d))

\* Timeframe::window_minutes
window_minutes(tf) ==
    CASE tf = "M1"  -> 1
      [] tf = "M5"  -> 5
      [] tf = "M15" -> 15
      [] tf = "M30" -> 30
      [] tf = "H1"  -> 60
      [] tf = "H4"  -> 4 * 60
      [] tf = "D1"  -> 24 * 60

\* Timeframe::window_millis
window_millis(tf) ==
    CASE tf = "M1"  -> 60000
      [] tf = "M5"  -> 5 * 60000
      [] tf = "M15" -> 15 * 60000
      [] tf = "M30" -> 30 * 60000
      [] tf = "H1"  -> 60 * 60000
      [] tf = "H4"  -> 4 * 60 * 60000
      [] tf = "D1"  -> 24 * 60 * 60000

\* the operator % of i64: the remainder of the division that truncates
\* towards zero, with the sign of the dividend (b > 0)
rem(a, b) == IF a >= 0 THEN a % b ELSE -((-a) % b)

\* Timeframe::nearest_ms
nearest_ms(tf, now_ms) == now_ms - rem(now_ms, window_millis(tf))

\* the timeframe of the calculator of SpecWin
WinTf == "M5"

\* struct Kline (Bar1m): the 1m bar of minute m
Kline(m, closed, open, high, low, close) ==
    [open_time |-> m * window_millis("M1"), closed |-> closed,
     open |-> open, high |-> high, low |-> low, close |-> close]

\* a 1m bar of minute m whose four prices are 1
Bar(m, closed) == Kline(m, closed, 1, 1, 1, 1)

\* RingBuffer::new
RingBufferNew(capacity) ==
    [buffer |-> <<>>, capacity |-> IF capacity < 1 THEN 1 ELSE capacity]

\* push that evicts only from a buffer already over its capacity
push_Mutant(rb, item) ==
    IF Len(rb.buffer) > rb.capacity
    THEN [rb EXCEPT !.buffer = Append(Tail(rb.buffer), item)]
    ELSE [rb EXCEPT !.buffer = Append(rb.buffer, item)]

\* RingBuffer::push
push(rb, item) ==
    IF Len(rb.buffer) >= rb.capacity
    THEN [rb EXCEPT !.buffer = Append(Tail(rb.buffer), item)]
    ELSE [rb EXCEPT !.buffer = Append(rb.buffer, item)]

\* replace_last that appends the item instead of overwriting the tail
replace_last_Mutant(rb, item) == push(rb, item)

\* RingBuffer::replace_last
replace_last(rb, item) ==
    IF rb.buffer = <<>> THEN rb
    ELSE [rb EXCEPT !.buffer = Append(SubSeq(rb.buffer, 1, Len(rb.buffer) - 1), item)]

\* RingBuffer::back : Option<&T>
back(rb) == IF rb.buffer = <<>> THEN None ELSE Some(rb.buffer[Len(rb.buffer)])

\* RingBuffer::front : Option<&T>
front(rb) == IF rb.buffer = <<>> THEN None ELSE Some(rb.buffer[1])

\* RingBuffer::clear
clear(rb) == [rb EXCEPT !.buffer = <<>>]

\* RingBuffer<Kline>::retain_by_open_time with the predicate |ts| ts >= from
retain_by_open_time(rb, from) ==
    LET keep(bar) == bar.open_time >= from
    IN [rb EXCEPT !.buffer = SelectSeq(rb.buffer, keep)]

\* the period IndicatorManager::update passes to Rsi::new
DefaultRsiPeriod == 14

\* Rsi::new / Volatility::new; a Volatility has neither period nor
\* previous_bar: they stay 0 and None
CalculatorNew(kind, period, tf) ==
    [kind |-> kind, stage |-> "New", tf |-> tf, period |-> period,
     buffer |-> RingBufferNew(10), window_1m_bars |-> None,
     aggr_closed_bars |-> None, previous_bar |-> None, value |-> None]

\* Rsi::update_buffer and Volatility::update_buffer (the same code)
update_buffer(c, bar) ==
    LET last == back(c.buffer) IN
    IF last = None THEN [c EXCEPT !.buffer = push(c.buffer, bar)]
    ELSE IF Unwrap(last).open_time < bar.open_time
         THEN [c EXCEPT !.buffer = push(c.buffer, bar)]
    ELSE IF ~Unwrap(last).closed /\ Unwrap(last).open_time = bar.open_time
         THEN [c EXCEPT !.buffer = replace_last(c.buffer, bar)]
    ELSE c

\* the highest high / the lowest low of a non-empty sequence of bars
MaxHigh(bars) ==
    CHOOSE h \in {bars[i].high : i \in DOMAIN bars} : \A i \in DOMAIN bars : bars[i].high <= h

MinLow(bars) ==
    CHOOSE l \in {bars[i].low : i \in DOMAIN bars} : \A i \in DOMAIN bars : l <= bars[i].low

\* Rsi::set_aggregate: open, high, low and close over the window without
\* its last bar (RingBuffer::iter_without_last)
Rsi_set_aggregate(c) ==
    IF c.tf = "M1" \/ c.window_1m_bars = None
    THEN [c EXCEPT !.aggr_closed_bars = None]
    ELSE LET w == Unwrap(c.window_1m_bars).buffer
             bars == SubSeq(w, 1, Len(w) - 1)
         IN IF bars = <<>>
            THEN [c EXCEPT !.aggr_closed_bars = None]
            ELSE [c EXCEPT !.aggr_closed_bars =
                     Some([open |-> bars[1].open, high |-> MaxHigh(bars),
                           low |-> MinLow(bars), close |-> bars[Len(bars)].close])]

\* Volatility::set_aggregate: the first highest high and the first lowest
\* low, with their open_time, over the closed bars of the window that do
\* not open in the minute of the clock; left as it is without a window or
\* with an empty one
Volatility_set_aggregate(c, now_ms) ==
    IF c.tf = "M1" THEN [c EXCEPT !.aggr_closed_bars = None]
    ELSE IF c.window_1m_bars = None \/ front(Unwrap(c.window_1m_bars)) = None THEN c
    ELSE LET w == Unwrap(c.window_1m_bars).buffer
             current_1m_start == nearest_ms("M1", now_ms)
             counted(bar) == ~(bar.open_time = current_1m_start \/ ~bar.closed)
             bars == SelectSeq(w, counted)
         IN IF bars = <<>>
            THEN [c EXCEPT !.aggr_closed_bars = None]
            ELSE LET hi == CHOOSE i \in DOMAIN bars :
                              /\ bars[i].high = MaxHigh(bars)
                              /\ \A j \in 1..(i - 1) : bars[j].high < bars[i].high
                     lo == CHOOSE i \in DOMAIN bars :
                              /\ bars[i].low = MinLow(bars)
                              /\ \A j \in 1..(i - 1) : bars[j].low > bars[i].low
                 IN [c EXCEPT !.aggr_closed_bars =
                        Some([high |-> bars[hi].high, high_ts |-> bars[hi].open_time,
                              open |-> w[1].open,
                              low |-> bars[lo].low, low_ts |-> bars[lo].open_time])]

\* Smooth that takes x off the weighted average instead of adding it
Smooth_Mutant(avg, x, period) ==
    FracDiv(FracSub(FracMul(avg, Whole(period - 1)), Whole(x)), Whole(period))

\* Wilder's smoothing, (avg * (period - 1) + x) / period
Smooth(avg, x, period) ==
    FracDiv(FracAdd(FracMul(avg, Whole(period - 1)), Whole(x)), Whole(period))

\* Rsi::update_previous_bar_from_last: one Wilder step from the stored close
\* to the close of `last`; nothing without a previous_bar
update_previous_bar_from_last(c, last) ==
    IF c.previous_bar = None THEN c
    ELSE LET prev == Unwrap(c.previous_bar)
             diff == last.close - prev.close
             gain == IF diff > 0 THEN diff ELSE 0
             loss == IF diff < 0 THEN -diff ELSE 0
         IN [c EXCEPT !.previous_bar =
                Some([close |-> last.close,
                      avg_gain |-> Smooth(prev.avg_gain, gain, c.period),
                      avg_loss |-> Smooth(prev.avg_loss, loss, c.period)])]

\* Rsi::update_window
Rsi_update_window(c, bar, now_ms) ==
    LET current_tf_open == nearest_ms(c.tf, now_ms) IN
    IF c.window_1m_bars = None THEN c
    ELSE LET window == Unwrap(c.window_1m_bars)
             last == back(window)
         IN IF last = None
            THEN [c EXCEPT !.window_1m_bars = Some(push(window, bar))]
            ELSE IF Unwrap(last).open_time = bar.open_time
            THEN [c EXCEPT !.window_1m_bars = Some(replace_last(window, bar))]
            ELSE IF Unwrap(last).open_time > bar.open_time
            THEN c
            ELSE LET trim == Unwrap(front(window)).open_time < current_tf_open
                     trimmed == IF trim THEN retain_by_open_time(window, current_tf_open)
                                ELSE window
                     c1 == Rsi_set_aggregate(
                               [c EXCEPT !.window_1m_bars = Some(push(trimmed, bar))])
                 IN IF trim THEN update_previous_bar_from_last(c1, Unwrap(last)) ELSE c1

\* Volatility::update_window
Volatility_update_window(c, bar, now_ms) ==
    IF c.window_1m_bars = None THEN c
    ELSE LET window == Unwrap(c.window_1m_bars)
             last == back(window)
         IN IF last = None
            THEN [c EXCEPT !.window_1m_bars = Some(push(window, bar))]
            ELSE IF Unwrap(last).open_time < bar.open_time
            THEN Volatility_set_aggregate(
                     [c EXCEPT !.window_1m_bars = Some(push(window, bar))], now_ms)
            ELSE IF ~Unwrap(last).closed /\ Unwrap(last).open_time = bar.open_time
            THEN [c EXCEPT !.window_1m_bars = Some(replace_last(window, bar))]
            ELSE c

\* the loop `for idx in 0..window_size` of set_window_1m_bars_from_history
\* and of Volatility::update_khist: the bar of the pre-warmup buffer if it
\* has one for expected_open, else the bar of hist_1m, else nothing
RECURSIVE FillWindow(_, _, _, _, _)
FillWindow(window, idx, window_start_ts, ws, api) ==
    IF idx >= window.capacity THEN window
    ELSE LET expected_open == window_start_ts + idx * window_millis("M1")
             ws_by_open == {bar \in Range(ws) : bar.open_time = expected_open}
             api_by_open == {bar \in Range(api) : bar.open_time = expected_open}
         IN IF ws_by_open # {}
            THEN FillWindow(push(window, CHOOSE bar \in ws_by_open : TRUE),
                            idx + 1, window_start_ts, ws, api)
            ELSE IF api_by_open # {}
            THEN FillWindow(push(window, CHOOSE bar \in api_by_open : TRUE),
                            idx + 1, window_start_ts, ws, api)
            ELSE FillWindow(window, idx + 1, window_start_ts, ws, api)

\* Rsi::set_window_1m_bars_from_history: the window starts at the open of
\* the current timeframe period
set_window_1m_bars_from_history(c, input, now_ms) ==
    LET tf == input.indicator_tf
        window_size == window_minutes(tf)
        window_start_ts == nearest_ms(tf, now_ms)
    IN [c EXCEPT !.window_1m_bars =
            Some(FillWindow(RingBufferNew(window_size), 0, window_start_ts,
                            c.buffer.buffer, input.hist_1m))]

\* the sum of the rises (rising) or of the falls of closes[1..period + 1],
\* a difference of 0 counting as a rise: the first loop of
\* set_previous_bar_from_history
RECURSIVE SumDiffs(_, _, _)
SumDiffs(closes, i, rising) ==
    IF i < 1 THEN 0
    ELSE LET diff == closes[i + 1] - closes[i]
         IN SumDiffs(closes, i - 1, rising)
            + (IF rising THEN (IF diff >= 0 THEN diff ELSE 0)
               ELSE (IF diff >= 0 THEN 0 ELSE -diff))

\* the second loop of set_previous_bar_from_history: a Wilder step for each
\* of closes[i..Len(closes)]
RECURSIVE SmoothFrom(_, _, _, _)
SmoothFrom(closes, i, avg, period) ==
    IF i > Len(closes) THEN avg
    ELSE LET diff == closes[i] - closes[i - 1]
             gain == IF diff > 0 THEN diff ELSE 0
             loss == IF diff < 0 THEN -diff ELSE 0
         IN SmoothFrom(closes, i + 1,
                       [avg_gain |-> Smooth(avg.avg_gain, gain, period),
                        avg_loss |-> Smooth(avg.avg_loss, loss, period)], period)

\* PriorCloses that also reads the bar of the current period
PriorCloses_Mutant(input, now_ms) ==
    LET tf == input.indicator_tf
        open_now == nearest_ms(tf, now_ms)
        upto(bar) == bar.open_time <= open_now
        bars == SelectSeq(input.hist_tf, upto)
    IN [i \in DOMAIN bars |-> bars[i].close]

\* the closes set_previous_bar_from_history reads: those of the bars of
\* hist_tf that open at or before the open of the previous period
PriorCloses(input, now_ms) ==
    LET tf == input.indicator_tf
        prev_open == nearest_ms(tf, now_ms) - window_millis(tf)
        prior(bar) == bar.open_time <= prev_open
        bars == SelectSeq(input.hist_tf, prior)
    IN [i \in DOMAIN bars |-> bars[i].close]

\* Rsi::set_previous_bar_from_history
set_previous_bar_from_history(c, input, now_ms) ==
    LET closes == PriorCloses(input, now_ms) IN
    IF Len(closes) < c.period + 1
    THEN [c EXCEPT !.previous_bar = None]
    ELSE LET first == [avg_gain |-> Frac(SumDiffs(closes, c.period, TRUE), c.period),
                       avg_loss |-> Frac(SumDiffs(closes, c.period, FALSE), c.period)]
             avg == SmoothFrom(closes, c.period + 2, first, c.period)
         IN [c EXCEPT !.previous_bar =
                Some([close |-> closes[Len(closes)],
                      avg_gain |-> avg.avg_gain, avg_loss |-> avg.avg_loss])]

\* Rsi_set_value that counts a rise as a loss too
Rsi_set_value_Mutant(c) ==
    IF c.window_1m_bars = None \/ back(Unwrap(c.window_1m_bars)) = None
       \/ c.previous_bar = None
    THEN c
    ELSE LET last == Unwrap(back(Unwrap(c.window_1m_bars)))
             prev == Unwrap(c.previous_bar)
             diff == last.close - prev.close
             gain == IF diff > 0 THEN diff ELSE 0
             loss == IF diff < 0 THEN -diff ELSE diff
             avg_gain == Smooth(prev.avg_gain, gain, c.period)
             avg_loss == Smooth(prev.avg_loss, loss, c.period)
             value == IF avg_loss = Whole(0) THEN Whole(100)
                      ELSE LET rs == FracDiv(avg_gain, avg_loss)
                           IN FracSub(Whole(100),
                                      FracDiv(Whole(100), FracAdd(Whole(1), rs)))
         IN [c EXCEPT !.value = Some(value)]

\* Rsi::set_value: needs a window, a last bar and previous_bar; else value
\* stays what it was
Rsi_set_value(c) ==
    IF c.window_1m_bars = None \/ back(Unwrap(c.window_1m_bars)) = None
       \/ c.previous_bar = None
    THEN c
    ELSE LET last == Unwrap(back(Unwrap(c.window_1m_bars)))
             prev == Unwrap(c.previous_bar)
             diff == last.close - prev.close
             gain == IF diff > 0 THEN diff ELSE 0
             loss == IF diff < 0 THEN -diff ELSE 0
             avg_gain == Smooth(prev.avg_gain, gain, c.period)
             avg_loss == Smooth(prev.avg_loss, loss, c.period)
             value == IF avg_loss = Whole(0) THEN Whole(100)
                      ELSE LET rs == FracDiv(avg_gain, avg_loss)
                           IN FracSub(Whole(100),
                                      FracDiv(Whole(100), FracAdd(Whole(1), rs)))
         IN [c EXCEPT !.value = Some(value)]

\* (extent * 10000.0).trunc() / 10000.0
Truncate4(extent) == FracDiv(trunc(FracMul(extent, Whole(10000))), Whole(10000))

\* Volatility::set_value: needs a window and a last bar; the extent of the
\* aggregate joined with the last bar, or of the last bar alone
Volatility_set_value(c) ==
    IF c.window_1m_bars = None \/ back(Unwrap(c.window_1m_bars)) = None
    THEN c
    ELSE LET last == Unwrap(back(Unwrap(c.window_1m_bars))) IN
         IF c.aggr_closed_bars # None
         THEN LET aggr == Unwrap(c.aggr_closed_bars)
                  high == IF aggr.high >= last.high THEN aggr.high ELSE last.high
                  low == IF aggr.low <= last.low THEN aggr.low ELSE last.low
                  sign == IF aggr.high_ts > aggr.low_ts THEN 1 ELSE -1
                  extent == FracMul(Frac(high - low, low), Whole(100 * sign))
              IN [c EXCEPT !.value = Some(Truncate4(extent))]
         ELSE LET sign == IF last.open < last.close THEN 1 ELSE -1
                  extent == FracMul(Frac(last.high - last.low, last.low), Whole(100 * sign))
              IN [c EXCEPT !.value = Some(Truncate4(extent))]

\* Indicator::update_khist for Rsi
Rsi_update_khist(c, input, now_ms) ==
    LET c1 == set_window_1m_bars_from_history(c, input, now_ms)
        c2 == Rsi_set_aggregate([c1 EXCEPT !.buffer = clear(c1.buffer)])
        c3 == set_previous_bar_from_history(c2, input, now_ms)
    IN [Rsi_set_value(c3) EXCEPT !.stage = "Ready"]

\* Indicator::update_khist for Volatility: the window starts window_size - 1
\* minutes before the current minute
Volatility_update_khist(c, input, now_ms) ==
    LET tf == input.indicator_tf
        window_size == window_minutes(tf)
        current_1m_start == nearest_ms("M1", now_ms)
        window_start_ts == current_1m_start - (window_size - 1) * window_millis("M1")
        c1 == [c EXCEPT !.window_1m_bars =
                  Some(FillWindow(RingBufferNew(window_size), 0, window_start_ts,
                                  c.buffer.buffer, input.hist_1m))]
        c2 == Volatility_set_aggregate(c1, now_ms)
        c3 == [c2 EXCEPT !.buffer = clear(c2.buffer)]
    IN [Volatility_set_value(c3) EXCEPT !.stage = "Ready"]

\* Indicator::update of both calculators:
\* [calc |-> the instance after the call, out |-> what the call returned]
update(c, bar, now_ms) ==
    IF c.stage = "New"
    THEN [calc |-> update_buffer([c EXCEPT !.stage = "WarmUp"], bar), out |-> None]
    ELSE IF c.stage = "WarmUp"
    THEN [calc |-> update_buffer(c, bar), out |-> None]
    ELSE LET c2 == IF c.kind = "Rsi"
                   THEN Rsi_set_value(Rsi_update_window(c, bar, now_ms))
                   ELSE Volatility_set_value(Volatility_update_window(c, bar, now_ms))
         IN [calc |-> c2, out |-> c2.value]

\* Indicator::update_khist of both calculators
update_khist(c, input, now_ms) ==
    IF c.kind = "Rsi" THEN Rsi_update_khist(c, input, now_ms)
    ELSE Volatility_update_khist(c, input, now_ms)

\* the minutes of SpecWin
Minutes == 0..MaxMinute

\* hist_1m of a bundle fetched at now_ms: the bars of the minutes up to the
\* current one, without the minutes of `missing`; the REST adapter marks
\* every bar closed
History(now_ms, missing) ==
    LET cur == now_ms \div window_millis("M1")
        all == [i \in 1..(cur + 1) |-> Bar(i - 1, TRUE)]
        kept(bar) == (bar.open_time \div window_millis("M1")) \notin missing
    IN SelectSeq(all, kept)

\* hist_tf of a bundle: n bars of the timeframe with the closes of `closes`,
\* one per period, the last of them opening `lag` periods before the
\* period of now_ms
HistTf(tf, now_ms, closes, lag) ==
    [i \in DOMAIN closes |->
        [open_time |-> nearest_ms(tf, now_ms) - (lag + Len(closes) - i) * window_millis(tf),
         closed |-> TRUE, open |-> closes[i], high |-> closes[i],
         low |-> closes[i], close |-> closes[i]]]

\* the minutes a fetched history may lack: none, or one of the two minutes
\* before the current one
MissingMinutes(now_ms) ==
    LET cur == now_ms \div window_millis("M1")
    IN {{}} \cup {{m} : m \in {cur - 1, cur - 2} \cap Minutes}

\* IndicatorManager builds the calculator (Rsi::new / Volatility::new)
WinNew ==
    /\ win_calc = None
    /\ \E kind \in IndicatorNames :
          win_calc' = Some(CalculatorNew(kind, IF kind = "Rsi" THEN DefaultRsiPeriod ELSE 0,
                                         WinTf))
    /\ \E m \in Minutes : win_now' = m * window_millis("M1")
    /\ UNCHANGED <<win_call, win_fed, win_calls, not_win_vars>>

\* a minute passes on the wall clock
WinTick ==
    /\ win_calc # None
    /\ win_now + window_millis("M1") <= MaxMinute * window_millis("M1")
    /\ win_now' = win_now + window_millis("M1")
    /\ UNCHANGED <<win_calc, win_call, win_fed, win_calls, not_win_vars>>

\* a live bar reaches the calculator: Indicator::update
WinUpdate ==
    /\ win_calc # None
    /\ win_calls < MaxWinCalls
    /\ \E m \in Minutes, closed \in BOOLEAN :
          LET bar == Bar(m, closed)
              res == update(Unwrap(win_calc), bar, win_now)
          IN /\ win_calc' = Some(res.calc)
             /\ win_call' = [op |-> "update", bar |-> bar, now |-> win_now, out |-> res.out]
             /\ win_fed' = [last |-> Some(bar.open_time),
                            in_order |-> /\ win_fed.in_order
                                         /\ \/ win_fed.last = None
                                            \/ Unwrap(win_fed.last) <= bar.open_time]
    /\ win_calls' = win_calls + 1
    /\ UNCHANGED <<win_now, not_win_vars>>

\* a warmup bundle reaches the calculator: Indicator::update_khist
WinUpdateKhist ==
    /\ win_calc # None
    /\ win_calls < MaxWinCalls
    /\ \E missing \in MissingMinutes(win_now), enough \in BOOLEAN :
          LET closes == [i \in 1..(IF enough THEN DefaultRsiPeriod + 1 ELSE 0) |-> 1]
              input == [indicator_tf |-> WinTf, hist_1m |-> History(win_now, missing),
                        hist_tf |-> HistTf(WinTf, win_now, closes, 1)]
          IN /\ win_calc' = Some(update_khist(Unwrap(win_calc), input, win_now))
             /\ win_call' = [op |-> "update_khist", input |-> input, now |-> win_now]
    /\ win_calls' = win_calls + 1
    /\ UNCHANGED <<win_now, win_fed, not_win_vars>>

NextWin ==
    \/ WinNew
    \/ WinTick
    \/ WinUpdate
    \/ WinUpdateKhist

SpecWin == Init /\ [][NextWin]_vars

----------------------------------------------------------------------------
(* SpecValue: one calculator as in SpecWin, now fed bars and histories of  *)
(* several prices, for the values it computes.  The calculator is built by *)
(* its first live bar, primed once in the minute it was built in (SpecWin  *)
(* primes again, feeds more bars and lets the clock run before priming)    *)
(* and then fed the bars of the minute of the clock and of the minute      *)
(* before while the clock runs on to ValMaxMinute.                         *)

\* the prices of the live bars of SpecValue
Prices == {1, 2, 3}

\* the closes of the hist_tf bars of SpecValue
HistPrices == {1, 2}

\* open, high, low and close of the bars fed to a Volatility: flat, rising,
\* falling, close = open with high > low, and a new high
Shapes ==
    {[open |-> 1, high |-> 1, low |-> 1, close |-> 1],
     [open |-> 1, high |-> 2, low |-> 1, close |-> 2],
     [open |-> 2, high |-> 2, low |-> 1, close |-> 1],
     [open |-> 2, high |-> 3, low |-> 1, close |-> 2],
     [open |-> 2, high |-> 3, low |-> 2, close |-> 3]}

\* the bars fed to an Rsi, which reads their close only
FlatShapes == {[open |-> p, high |-> p, low |-> p, close |-> p] : p \in Prices}

ShapesOf(kind) == IF kind = "Rsi" THEN FlatShapes ELSE Shapes

\* the timeframes and the Rsi periods of the calculators of SpecValue
ValTimeframes == {"M1", "M5"}

ValPeriods == {1, 2}

\* the minute the clock of SpecValue starts in
ValStartMinutes == {4}

\* hist_1m of a bundle fetched at now_ms: the closed bars of the minutes up
\* to the current one, all of one shape
ShapedHistory(now_ms, shape) ==
    [i \in 1..((now_ms \div window_millis("M1")) + 1) |->
        Kline(i - 1, TRUE, shape.open, shape.high, shape.low, shape.close)]

\* the live bars of SpecValue at now_ms: the bar of the minute of the
\* clock and the bar of the minute before (the stream runs behind the
\* clock at a minute boundary), open or closed, of a shape of the
\* calculator's kind
LiveBars(kind, now_ms) ==
    LET cur == now_ms \div window_millis("M1") IN
    {Kline(m, closed, shape.open, shape.high, shape.low, shape.close) :
        m \in {cur - 1, cur}, closed \in BOOLEAN, shape \in ShapesOf(kind)}

\* IndicatorManager::update for a key without a calculator: or_insert_with
\* builds it (Rsi::new with the period, Volatility::new) and the first live
\* bar goes through Indicator::update
ValNew ==
    /\ win_calc = None
    /\ \E kind \in IndicatorNames, tf \in ValTimeframes, period \in ValPeriods,
          m \in ValStartMinutes :
          LET now_ms == m * window_millis("M1") IN
          \E bar \in LiveBars(kind, now_ms) :
             LET res == update(CalculatorNew(kind, IF kind = "Rsi" THEN period ELSE 0, tf),
                               bar, now_ms)
             IN /\ kind = "Volatility" => period = 1
                /\ win_now' = now_ms
                /\ win_calc' = Some(res.calc)
                /\ win_call' = [op |-> "update", bar |-> bar, now |-> now_ms, out |-> res.out]
                /\ win_fed' = [last |-> Some(bar.open_time), in_order |-> TRUE]
    /\ UNCHANGED <<win_calls, not_win_vars>>

\* a live bar of the current or of the previous minute reaches the primed
\* calculator: Indicator::update
ValUpdate ==
    /\ win_calc # None
    /\ Unwrap(win_calc).stage = "Ready"
    /\ win_calls < MaxValCalls
    /\ \E bar \in LiveBars(Unwrap(win_calc).kind, win_now) :
          LET res == update(Unwrap(win_calc), bar, win_now)
          IN /\ win_calc' = Some(res.calc)
             /\ win_call' = [op |-> "update", bar |-> bar, now |-> win_now, out |-> res.out]
             /\ win_fed' = [last |-> Some(bar.open_time),
                            in_order |-> /\ win_fed.in_order
                                         /\ \/ win_fed.last = None
                                            \/ Unwrap(win_fed.last) <= bar.open_time]
    /\ win_calls' = win_calls + 1
    /\ UNCHANGED <<win_now, not_win_vars>>

\* the warmup bundle reaches the calculator: Indicator::update_khist.
\* hist_tf ends with the bar of the previous period (lag 1) or with the bar
\* of the current one (lag 0).
ValUpdateKhist ==
    /\ win_calc # None
    /\ Unwrap(win_calc).stage # "Ready"
    /\ win_calls < MaxValCalls
    /\ LET c == Unwrap(win_calc) IN
       \E closes \in IF c.kind = "Rsi" THEN SeqsUpTo(HistPrices, MaxHist) ELSE {<<>>},
          lag \in IF c.kind = "Rsi" THEN {0, 1} ELSE {1},
          shape \in IF c.kind = "Rsi" THEN {s \in FlatShapes : s.close = 1} ELSE Shapes :
          LET input == [indicator_tf |-> c.tf, hist_1m |-> ShapedHistory(win_now, shape),
                        hist_tf |-> HistTf(c.tf, win_now, closes, lag)]
          IN /\ win_calc' = Some(update_khist(c, input, win_now))
             /\ win_call' = [op |-> "update_khist", input |-> input, now |-> win_now]
    /\ win_calls' = win_calls + 1
    /\ UNCHANGED <<win_now, win_fed, not_win_vars>>

\* a minute passes on the clock of the primed calculator
ValTick ==
    /\ win_calc # None
    /\ Unwrap(win_calc).stage = "Ready"
    /\ win_now < ValMaxMinute * window_millis("M1")
    /\ win_now' = win_now + window_millis("M1")
    /\ UNCHANGED <<win_calc, win_call, win_fed, win_calls, not_win_vars>>

NextValue ==
    \/ ValNew
    \/ ValTick
    \/ ValUpdate
    \/ ValUpdateKhist

SpecValue == Init /\ [][NextValue]_vars

----------------------------------------------------------------------------
(* SpecManager: the calculator IndicatorManager::update builds for an Rsi  *)
(* key of timeframe 1m, under a config whose RsiConfig.length is 3 or 14   *)
(* (src/src/indicators/mod.rs, src/src/engine/mod.rs).  The calculator,    *)
(* the clock and the calls are the variables of SpecWin.                   *)

\* RsiConfig.length of the configs of SpecManager
MgrLengths == {3, 14}

\* the numbers of closes of the hist_tf of a bundle of SpecManager
MgrCloseCounts == {2, 10, 15}

\* the closes of a hist_tf of n bars: all equal, rising, or up and down
MgrCloses(n) ==
    {[i \in 1..n |-> 1], [i \in 1..n |-> i], [i \in 1..n |-> 1 + (i % 2)]}

\* EngineMessage::Config: the Engine stores the config and reboots with an
\* empty IndicatorManager
MgrConfig ==
    /\ mgr_length = None
    /\ win_calc = None
    /\ \E length \in MgrLengths : mgr_length' = Some(length)
    /\ UNCHANGED <<win_vars, not_mgr_vars>>

\* IndicatorManager::update for the Rsi key, which has no calculator yet:
\* or_insert_with(|| Rsi::new(14, timeframe, pair)), then Indicator::update
MgrNew ==
    /\ mgr_length # None
    /\ win_calc = None
    /\ \E m \in ValStartMinutes :
          LET now_ms == m * window_millis("M1") IN
          \E bar \in LiveBars("Rsi", now_ms) :
             LET res == update(CalculatorNew("Rsi", DefaultRsiPeriod, "M1"), bar, now_ms)
             IN /\ win_now' = now_ms
                /\ win_calc' = Some(res.calc)
                /\ win_call' = [op |-> "update", bar |-> bar, now |-> now_ms,
                                out |-> res.out]
                /\ win_fed' = [last |-> Some(bar.open_time), in_order |-> TRUE]
    /\ UNCHANGED <<win_calls, mgr_length, not_mgr_vars>>

\* IndicatorManager::update_khist: the bundle entry of the key, its hist_tf
\* ending with the bar of the minute before the clock's
MgrUpdateKhist ==
    /\ win_calc # None
    /\ Unwrap(win_calc).stage # "Ready"
    /\ win_calls < MaxValCalls
    /\ \E n \in MgrCloseCounts :
          \E closes \in MgrCloses(n) :
             LET c == Unwrap(win_calc)
                 shape == [open |-> 1, high |-> 1, low |-> 1, close |-> 1]
                 input == [indicator_tf |-> c.tf,
                           hist_1m |-> ShapedHistory(win_now, shape),
                           hist_tf |-> HistTf(c.tf, win_now, closes, 1)]
             IN /\ win_calc' = Some(update_khist(c, input, win_now))
                /\ win_call' = [op |-> "update_khist", input |-> input, now |-> win_now]
    /\ win_calls' = win_calls + 1
    /\ UNCHANGED <<win_now, win_fed, mgr_length, not_mgr_vars>>

\* IndicatorManager::update for the key of the Ready calculator
MgrUpdate ==
    /\ win_calc # None
    /\ Unwrap(win_calc).stage = "Ready"
    /\ win_calls < MaxValCalls
    /\ \E bar \in LiveBars("Rsi", win_now) :
          LET res == update(Unwrap(win_calc), bar, win_now)
          IN /\ win_calc' = Some(res.calc)
             /\ win_call' = [op |-> "update", bar |-> bar, now |-> win_now, out |-> res.out]
             /\ win_fed' = [last |-> Some(bar.open_time),
                            in_order |-> /\ win_fed.in_order
                                         /\ \/ win_fed.last = None
                                            \/ Unwrap(win_fed.last) <= bar.open_time]
    /\ win_calls' = win_calls + 1
    /\ UNCHANGED <<win_now, mgr_length, not_mgr_vars>>

NextManager ==
    \/ MgrConfig
    \/ MgrNew
    \/ WinTick
    \/ MgrUpdateKhist
    \/ MgrUpdate

SpecManager == Init /\ [][NextManager]_vars

----------------------------------------------------------------------------
(* SpecPeriod: a 5m Volatility calculator through the five minutes of one   *)
(* 5m period, which opens at 0: the first live bar builds it, the bundle   *)
(* primes it in the first minute, and each minute brings its bar, open     *)
(* and closed (src/src/indicators/volatility.rs).  The lowest low of the   *)
(* period is in the bar of the first minute, the highest high in the bar   *)
(* of the last.  The variables are those of SpecWin.                       *)

\* the last minute of the 5m period
PeriodLastMinute == window_minutes("M5") - 1

\* the bars of minute m, as [open, high, low, close]: rising from low to high
PeriodShapes(m) ==
    LET rising(low, high) == [open |-> low, high |-> high, low |-> low, close |-> high]
    IN IF m = 0 THEN {rising(1, high) : high \in {1, 2, 3}}
       ELSE IF m = PeriodLastMinute THEN {rising(low, 4) : low \in {2, 3}}
       ELSE {rising(2, 2), rising(2, 3), rising(3, 3)}

\* the live bars at now_ms: the bar of the minute of the clock, open or
\* closed, and the closed bar of the minute before
PeriodBars(now_ms) ==
    LET cur == now_ms \div window_millis("M1") IN
    UNION {{Kline(at[1], at[2], shape.open, shape.high, shape.low, shape.close) :
               shape \in PeriodShapes(at[1])} :
           at \in {<<cur, FALSE>>, <<cur, TRUE>>} \cup
                  (IF cur > 0 THEN {<<cur - 1, TRUE>>} ELSE {})}

\* Volatility::new and the first live bar, in the first minute of the period
PeriodNew ==
    /\ win_calc = None
    /\ \E bar \in PeriodBars(0) :
          LET res == update(CalculatorNew("Volatility", 0, "M5"), bar, 0)
          IN /\ win_calc' = Some(res.calc)
             /\ win_call' = [op |-> "update", bar |-> bar, now |-> 0, out |-> res.out]
             /\ win_fed' = [last |-> Some(bar.open_time), in_order |-> TRUE]
    /\ UNCHANGED <<win_now, win_calls, not_win_vars>>

\* Indicator::update_khist in the first minute: hist_1m holds the bar of
\* that minute as the REST adapter returns it
PeriodPrime ==
    /\ win_calc # None
    /\ Unwrap(win_calc).stage = "WarmUp"
    /\ win_now = 0
    /\ \E shape \in PeriodShapes(0) :
          LET input == [indicator_tf |-> "M5",
                        hist_1m |-> <<Kline(0, TRUE, shape.open, shape.high,
                                            shape.low, shape.close)>>,
                        hist_tf |-> <<>>]
          IN /\ win_calc' = Some(update_khist(Unwrap(win_calc), input, win_now))
             /\ win_call' = [op |-> "update_khist", input |-> input, now |-> win_now]
    /\ UNCHANGED <<win_now, win_fed, win_calls, not_win_vars>>

\* a minute passes, up to the last of the period
PeriodTick ==
    /\ win_calc # None
    /\ Unwrap(win_calc).stage = "Ready"
    /\ win_now < PeriodLastMinute * window_millis("M1")
    /\ win_now' = win_now + window_millis("M1")
    /\ UNCHANGED <<win_calc, win_call, win_fed, win_calls, not_win_vars>>

\* Indicator::update of the Ready calculator
PeriodUpdate ==
    /\ win_calc # None
    /\ Unwrap(win_calc).stage = "Ready"
    /\ \E bar \in PeriodBars(win_now) :
          LET res == update(Unwrap(win_calc), bar, win_now)
          IN /\ win_calc' = Some(res.calc)
             /\ win_call' = [op |-> "update", bar |-> bar, now |-> win_now, out |-> res.out]
             /\ win_fed' = [last |-> Some(bar.open_time),
                            in_order |-> /\ win_fed.in_order
                                         /\ \/ win_fed.last = None
                                            \/ Unwrap(win_fed.last) <= bar.open_time]
    /\ UNCHANGED <<win_now, win_calls, not_win_vars>>

NextPeriod ==
    \/ PeriodNew
    \/ PeriodPrime
    \/ PeriodTick
    \/ PeriodUpdate

SpecPeriod == Init /\ [][NextPeriod]_vars

----------------------------------------------------------------------------
(* SpecJob: the Rsi part of WarmupJob::process (src/src/history/mod.rs,    *)
(* lines 102-128): for each timeframe of the Rsi config, where the history *)
(* at that timeframe starts that goes into the bundle as hist_tf.          *)

\* the timeframes of the Rsi configs of SpecJob
JobTimeframes == {"M1", "M5", "M15"}

\* rsi_cfg.timeframes(): one timeframe, or two different ones
JobConfigs ==
    {<<tf>> : tf \in JobTimeframes}
    \cup {pair \in JobTimeframes \X JobTimeframes : pair[1] # pair[2]}

\* the clock of SpecJob starts late enough for 500 periods of the longest
\* timeframe to lie behind it
JobEpoch == 500 * window_millis("M15")

\* WarmUpEvent.start_ts, as the milliseconds after JobEpoch
JobOffsets == {0, 1, 59999, 60000, 299999, 300000, 840000, 899999, 900000, 901000}

\* how long after start_ts the Engine applies the bundle
JobDelays == {0, 1000, 60000}

\* HistoryMessage::WarmUp received with a config: the job is spawned
JobSpawn ==
    /\ job_pc = "idle"
    /\ \E offset \in JobOffsets, timeframes \in JobConfigs, length \in MgrLengths :
          job_event' = Some([start_ts |-> JobEpoch + offset,
                             timeframes |-> timeframes, length |-> length])
    /\ job_pc' = "rsi"
    /\ job_i' = 1
    /\ job_starts' = <<>>
    /\ UNCHANGED <<job_now, not_job_vars>>

\* one turn of `for tf in rsi_cfg.timeframes()`: the 1m history is the base
\* history cut at floor_1m(start_ts); any other is fetched from
\* floor_T(start_ts - 500 * T) (the saturating_sub never saturates here)
JobRsiHistory ==
    /\ job_pc = "rsi"
    /\ job_i <= Len(Unwrap(job_event).timeframes)
    /\ LET tf == Unwrap(job_event).timeframes[job_i]
           start_ts == Unwrap(job_event).start_ts
           start == IF tf = "M1" THEN nearest_ms(tf, start_ts)
                    ELSE nearest_ms(tf, start_ts - window_millis(tf) * 500)
       IN job_starts' = [t \in DOMAIN job_starts \cup {tf} |->
                            IF t = tf THEN start ELSE job_starts[t]]
    /\ job_i' = job_i + 1
    /\ UNCHANGED <<job_pc, job_event, job_now, not_job_vars>>

\* send_khist_bundle; the Engine applies the bundle at job_now
JobSend ==
    /\ job_pc = "rsi"
    /\ job_i > Len(Unwrap(job_event).timeframes)
    /\ \E delay \in JobDelays : job_now' = Unwrap(job_event).start_ts + delay
    /\ job_pc' = "sent"
    /\ UNCHANGED <<job_event, job_i, job_starts, not_job_vars>>

NextJob ==
    \/ JobSpawn
    \/ JobRsiHistory
    \/ JobSend

SpecJob == Init /\ [][NextJob]_vars

----------------------------------------------------------------------------
(* SpecFetch: fetch_history (src/src/history/mod.rs, lines 174-203), the   *)
(* paginated pull of one timeframe.  Times are kept relative to `start`,   *)
(* the open_time the next request asks from: the adapter answers with bars *)
(* at start + offset, and the clock reads start + fetch_behind.  The       *)
(* adapter is any that returns at most FetchLimit bars in strictly         *)
(* ascending open_time order, none before start, or fails.                 *)

\* the timeframe of the fetch
FetchTf == "M1"

\* the most bars the adapter returns for one request (the program asks for
\* LIMIT = 1000)
FetchLimit == 2

\* the bars the adapter returns open at most this many periods after start
FetchMaxSpan == 2

\* a request takes at most this many half periods
FetchMaxElapsed == 4

\* a request is only followed while the next one starts at most this many
\* half periods behind the clock
FetchMaxBehind == 6

HalfPeriod == window_millis(FetchTf) \div 2

\* what klinestore::history may return: open_time - start of its bars
Batches ==
    {batch \in SeqsUpTo({k * window_millis(FetchTf) : k \in 0..FetchMaxSpan}, FetchLimit) :
        \A i \in 1..(Len(batch) - 1) : batch[i] < batch[i + 1]}

\* next_start that asks again from the open_time of the last bar
next_start_Mutant(batch, start, window) ==
    IF batch = <<>> THEN start ELSE batch[Len(batch)]

\* batch.last().map(|bar| bar.open_time.saturating_add(window)).unwrap_or(start)
next_start(batch, start, window) ==
    IF batch = <<>> THEN start ELSE batch[Len(batch)] + window

\* fetch_history is called: start = start_ms lies at or before the clock
FetchBegin ==
    /\ fetch_pc = "idle"
    /\ \E k \in 0..FetchMaxBehind : fetch_behind' = k * HalfPeriod
    /\ fetch_pc' = "loop"
    /\ UNCHANGED <<fetch_recent, fetch_call, fetch_paged, fetch_slow, not_fetch_vars>>

\* one turn of the loop with an answer of the adapter: the batch, and the
\* time that passed until now_millis() is read
FetchRequest ==
    /\ fetch_pc = "loop"
    /\ \E batch \in Batches, e \in 0..FetchMaxElapsed :
          LET elapsed == e * HalfPeriod
              now == fetch_behind + elapsed
              next == next_start(batch, 0, window_millis(FetchTf))
              history == fetch_recent \cup Range(batch)
          IN /\ fetch_call' = Some([batch |-> batch, elapsed |-> elapsed,
                                    twice |-> fetch_recent \cap Range(batch)])
             /\ fetch_paged' = (fetch_call # None)
             /\ IF batch = <<>>
                THEN /\ fetch_pc' = "done"
                     /\ fetch_behind' = now
                     /\ UNCHANGED <<fetch_recent, fetch_slow>>
                ELSE IF next >= now \/ next = 0
                THEN /\ fetch_pc' = "done"
                     /\ fetch_behind' = now
                     /\ fetch_recent' = history
                     /\ UNCHANGED fetch_slow
                ELSE /\ now - next <= FetchMaxBehind * HalfPeriod
                     /\ fetch_pc' = "loop"
                     /\ fetch_behind' = now - next
                     /\ fetch_recent' = {open - next : open \in {o \in history : o >= next}}
                     /\ fetch_slow' = (fetch_slow \/ elapsed >= next)
    /\ UNCHANGED not_fetch_vars

\* klinestore::history returns Err and `?` ends fetch_history
FetchFail ==
    /\ fetch_pc = "loop"
    /\ fetch_pc' = "failed"
    /\ UNCHANGED <<fetch_behind, fetch_recent, fetch_call, fetch_paged, fetch_slow,
                   not_fetch_vars>>

NextFetch ==
    \/ FetchBegin
    \/ FetchRequest
    \/ FetchFail

SpecFetch == Init /\ [][NextFetch]_vars

\* fetch_history is a task the runtime keeps polling, and the adapter
\* answers every request
SpecFetchFair == SpecFetch /\ WF_vars(FetchRequest \/ FetchFail)

----------------------------------------------------------------------------
(* SpecLimiter: RateLimiter::acquire (src/src/adapters/binance.rs, lines   *)
(* 149-177) called by concurrent tasks that share one limiter.  What a     *)
(* task does between taking the lock and returning or dropping it has no   *)
(* await in it and reads the clock once: it is one step.                   *)

\* the loop `while let Some(&ts) = calls.front()`: the instants a window or
\* more before now leave the front of the deque
RECURSIVE pop_expired(_, _, _)
pop_expired(calls, now, window) ==
    IF calls # <<>> /\ now - Head(calls) >= window
    THEN pop_expired(Tail(calls), now, window)
    ELSE calls

\* acquire that admits a call while the deque holds max_calls instants
acquire_Mutant(calls, now, window, max_calls) ==
    LET kept == pop_expired(calls, now, window) IN
    IF Len(kept) <= max_calls
    THEN [calls |-> Append(kept, now), admitted |-> TRUE, wait |-> 0]
    ELSE [calls |-> kept, admitted |-> FALSE,
          wait |-> IF window - (now - Head(kept)) < 0 THEN 0
                   ELSE window - (now - Head(kept))]

\* the body of the loop of acquire, from the lock to the return or to the
\* sleep: [calls, admitted, wait]
acquire(calls, now, window, max_calls) ==
    LET kept == pop_expired(calls, now, window) IN
    IF Len(kept) < max_calls
    THEN [calls |-> Append(kept, now), admitted |-> TRUE, wait |-> 0]
    ELSE [calls |-> kept, admitted |-> FALSE,
          wait |-> IF window - (now - Head(kept)) < 0 THEN 0
                   ELSE window - (now - Head(kept))]

\* a task calls acquire and waits for the lock
LimCall(t) ==
    /\ lim_pc[t] = "idle"
    /\ lim_pc' = [lim_pc EXCEPT ![t] = "locking"]
    /\ UNCHANGED <<lim_calls, lim_now, lim_wake, lim_admitted, not_lim_vars>>

\* a task gets the lock and runs the body of the loop: it is admitted and
\* returns, or it drops the lock and sleeps
LimEnter(t) ==
    /\ lim_pc[t] = "locking"
    /\ LET res == acquire(lim_calls, lim_now, LimWindow, LimMaxCalls)
       IN /\ lim_calls' = res.calls
          /\ IF res.admitted
             THEN /\ lim_pc' = [lim_pc EXCEPT ![t] = "idle"]
                  /\ lim_admitted' = Append(lim_admitted, lim_now)
                  /\ UNCHANGED lim_wake
             ELSE /\ lim_pc' = [lim_pc EXCEPT ![t] = "sleeping"]
                  /\ lim_wake' = [lim_wake EXCEPT ![t] = lim_now + res.wait]
                  /\ UNCHANGED lim_admitted
    /\ UNCHANGED <<lim_now, not_lim_vars>>

\* sleep(wait) is over, at its instant or later, and the loop starts again
LimWake(t) ==
    /\ lim_pc[t] = "sleeping"
    /\ lim_wake[t] <= lim_now
    /\ lim_pc' = [lim_pc EXCEPT ![t] = "locking"]
    /\ UNCHANGED <<lim_calls, lim_now, lim_wake, lim_admitted, not_lim_vars>>

\* the clock moves on
LimTick ==
    /\ lim_now < LimMaxNow
    /\ lim_now' = lim_now + 1
    /\ UNCHANGED <<lim_calls, lim_pc, lim_wake, lim_admitted, not_lim_vars>>

NextLimiter ==
    \/ \E t \in Tasks : LimCall(t)
    \/ \E t \in Tasks : LimEnter(t)
    \/ \E t \in Tasks : LimWake(t)
    \/ LimTick

SpecLimiter == Init /\ [][NextLimiter]_vars

----------------------------------------------------------------------------
(* SpecFloor: Timeframe::nearest_ms (src/src/types/timeframe.rs) called on *)
(* timestamps around the multiples of each window, of both signs, and once *)
(* more on its own result.                                                 *)

\* the timestamps of SpecFloor for tf: a multiple of the window, the
\* millisecond after it, the middle of a window and its last millisecond
FloorStamps(tf) ==
    LET w == window_millis(tf) IN
    {k * w + d : k \in (-FloorMaxPeriods)..FloorMaxPeriods,
                 d \in {0, 1, w \div 2, w - 1}}

\* tf.nearest_ms(ts)
FloorCall ==
    /\ floor_call = None
    /\ \E tf \in Timeframes :
          \E ts \in FloorStamps(tf) :
             floor_call' = Some([tf |-> tf, ts |-> ts, out |-> nearest_ms(tf, ts),
                                 again |-> None])
    /\ UNCHANGED not_floor_vars

\* tf.nearest_ms of the result of the call before
FloorAgain ==
    /\ floor_call # None
    /\ Unwrap(floor_call).again = None
    /\ LET c == Unwrap(floor_call)
       IN floor_call' = Some([c EXCEPT !.again = Some(nearest_ms(c.tf, c.out))])
    /\ UNCHANGED not_floor_vars

NextFloor ==
    \/ FloorCall
    \/ FloorAgain

SpecFloor == Init /\ [][NextFloor]_vars

----------------------------------------------------------------------------
(* SpecRing: one RingBuffer<Kline> (src/src/types/ring_buffer.rs) under    *)
(* every sequence of push, replace_last, clear and retain_by_open_time.    *)
(* ring_call keeps the buffer as it was before the last call and what the  *)
(* call returned.                                                          *)

\* the bars of SpecRing: open or closed bars of the minutes 0..RingMaxMinute
RingBars == {Bar(m, closed) : m \in 0..RingMaxMinute, closed \in BOOLEAN}

\* what RingBuffer::push returns: the evicted front of a full buffer
push_evicted(rb, item) ==
    IF Len(rb.buffer) >= rb.capacity THEN Some(rb.buffer[1]) ELSE None

\* what RingBuffer::replace_last returns: the element it replaced; the ?
\* on pop_back returns None from an empty buffer
replace_last_returned(rb, item) == back(rb)

\* RingBuffer::new(capacity)
RingNew ==
    /\ ring_rb = None
    /\ \E capacity \in 0..RingMaxCap :
          /\ ring_rb' = Some(RingBufferNew(capacity))
          /\ ring_requested' = capacity
    /\ ring_call' = [op |-> "new"]
    /\ UNCHANGED not_ring_vars

\* RingBuffer::push(item)
RingPush ==
    /\ ring_rb # None
    /\ \E item \in RingBars :
          LET rb == Unwrap(ring_rb) IN
          /\ ring_rb' = Some(push(rb, item))
          /\ ring_call' = [op |-> "push", item |-> item, before |-> rb.buffer,
                           returned |-> push_evicted(rb, item)]
    /\ UNCHANGED <<ring_requested, not_ring_vars>>

\* RingBuffer::replace_last(item)
RingReplaceLast ==
    /\ ring_rb # None
    /\ \E item \in RingBars :
          LET rb == Unwrap(ring_rb) IN
          /\ ring_rb' = Some(replace_last(rb, item))
          /\ ring_call' = [op |-> "replace_last", item |-> item, before |-> rb.buffer,
                           returned |-> replace_last_returned(rb, item)]
    /\ UNCHANGED <<ring_requested, not_ring_vars>>

\* RingBuffer::clear()
RingClear ==
    /\ ring_rb # None
    /\ ring_rb' = Some(clear(Unwrap(ring_rb)))
    /\ ring_call' = [op |-> "clear", before |-> Unwrap(ring_rb).buffer]
    /\ UNCHANGED <<ring_requested, not_ring_vars>>

\* RingBuffer::retain_by_open_time(|ts| ts >= from)
RingRetain ==
    /\ ring_rb # None
    /\ \E m \in 0..RingMaxMinute :
          LET from == m * window_millis("M1") IN
          /\ ring_rb' = Some(retain_by_open_time(Unwrap(ring_rb), from))
          /\ ring_call' = [op |-> "retain", from |-> from,
                           before |-> Unwrap(ring_rb).buffer]
    /\ UNCHANGED <<ring_requested, not_ring_vars>>

NextRing ==
    \/ RingNew
    \/ RingPush
    \/ RingReplaceLast
    \/ RingClear
    \/ RingRetain

SpecRing == Init /\ [][NextRing]_vars

----------------------------------------------------------------------------
(* SpecBackpressure: the awaits of the Engine, the History Service and the *)
(* WarmupJobs on the three bounded queues (src/src/engine/mod.rs,          *)
(* src/src/history/mod.rs).  Engine::run is at its select!, or inside      *)
(* send_warmup or flush_indicator_results waiting for room in a queue; a   *)
(* job is fetching or waiting to send its bundle.  What the calculators    *)
(* hold is left out: whether a bar asks for a warmup, returns a value or   *)
(* a bundle entry finds no calculator is drawn freely.                     *)

\* a send that queues the message although the receiver is dropped
SendOutcome_MutantQueued(receiver_alive, len) ==
    IF len < BpQueueCap THEN "ok" ELSE "wait"

\* a send that waits for ever once the receiver is dropped
SendOutcome_Mutant(receiver_alive, len) ==
    IF receiver_alive /\ len < BpQueueCap THEN "ok" ELSE "wait"

\* tokio mpsc Sender::send(..).await on a bounded queue: an error once the
\* receiver is dropped, else the message is queued as soon as there is room
SendOutcome(receiver_alive, len) ==
    IF ~receiver_alive THEN "err"
    ELSE IF len < BpQueueCap THEN "ok"
    ELSE "wait"

\* the HistoryRequests not yet answered: queued, or with a job alive
BpOutstanding ==
    Cardinality({i \in 1..Len(bp_history_q) : bp_history_q[i] = "WarmUp"})
    + Cardinality({w \in BpJobs : bp_workers[w] # "idle"})

\* the Live Feed hands a bar to the Engine queue (it waits while it is full)
BpFeedSend ==
    /\ bp_pc # "ended"
    /\ Len(bp_engine_q) < BpQueueCap
    /\ bp_engine_q' = Append(bp_engine_q, "Kline")
    /\ UNCHANGED <<bp_history_q, bp_ui_q, bp_pc, bp_results, bp_hist, bp_workers,
                   not_bp_vars>>

\* the UI's tx1.send(EngineMessage::Config(config))
BpUiConfigEngine ==
    /\ bp_pc # "ended"
    /\ Len(bp_engine_q) < BpQueueCap
    /\ bp_engine_q' = Append(bp_engine_q, "Config")
    /\ UNCHANGED <<bp_history_q, bp_ui_q, bp_pc, bp_results, bp_hist, bp_workers,
                   not_bp_vars>>

\* the UI's tx2.send(HistoryMessage::Config(cfg_for_history))
BpUiConfigHistory ==
    /\ bp_hist # "returned"
    /\ Len(bp_history_q) < BpQueueCap
    /\ bp_history_q' = Append(bp_history_q, "Config")
    /\ UNCHANGED <<bp_engine_q, bp_ui_q, bp_pc, bp_results, bp_hist, bp_workers,
                   not_bp_vars>>

\* the rx.recv() arm of Engine::run up to its first await: a Kline that
\* asks for a warmup goes on into send_warmup, any other is handled
\* (handle_kline may push a result); a bundle is applied, or panics on an
\* entry without calculator; a Config or Reboot resets
BpEngineRecv ==
    /\ bp_pc = "select"
    /\ bp_engine_q # <<>>
    /\ LET message == Head(bp_engine_q) IN
       \/ /\ message = "Kline"
          /\ BpOutstanding < BpMaxJobs
          /\ bp_pc' = "send_warmup"
          /\ bp_engine_q' = Tail(bp_engine_q)
          /\ UNCHANGED bp_results
       \/ /\ message = "Kline"
          /\ \E out \in BOOLEAN : bp_results' = (bp_results \/ out)
          /\ bp_engine_q' = Tail(bp_engine_q)
          /\ UNCHANGED bp_pc
       \/ /\ message = "Bundle"
          /\ \E panics \in BOOLEAN :
                IF panics
                THEN bp_pc' = "ended" /\ bp_engine_q' = <<>>
                ELSE bp_pc' = bp_pc /\ bp_engine_q' = Tail(bp_engine_q)
          /\ UNCHANGED bp_results
       \/ /\ message = "Config"
          /\ bp_engine_q' = Tail(bp_engine_q)
          /\ UNCHANGED <<bp_pc, bp_results>>
    /\ UNCHANGED <<bp_history_q, bp_ui_q, bp_hist, bp_workers, not_bp_vars>>

\* Engine::send_warmup: history_tx.send(..).await?, then handle_kline
BpEngineSendWarmup ==
    /\ bp_pc = "send_warmup"
    /\ LET outcome == SendOutcome(bp_hist # "returned", Len(bp_history_q)) IN
       /\ outcome # "wait"
       /\ IF outcome = "err"
          THEN /\ bp_pc' = "ended"
               /\ bp_engine_q' = <<>>
               /\ UNCHANGED <<bp_history_q, bp_results>>
          ELSE /\ bp_pc' = "select"
               /\ bp_history_q' = Append(bp_history_q, "WarmUp")
               /\ \E out \in BOOLEAN : bp_results' = (bp_results \/ out)
               /\ UNCHANGED bp_engine_q
    /\ UNCHANGED <<bp_ui_q, bp_hist, bp_workers, not_bp_vars>>

\* the flush_interval.tick() arm with results pending:
\* flush_indicator_results takes the batch and goes on to send it
BpEngineTick ==
    /\ bp_pc = "select"
    /\ bp_results
    /\ bp_results' = FALSE
    /\ bp_pc' = "send_ui"
    /\ UNCHANGED <<bp_engine_q, bp_history_q, bp_ui_q, bp_hist, bp_workers, not_bp_vars>>

\* flush_indicator_results: ui_tx.send(batch).await?; the sink is alive
BpEngineSendUi ==
    /\ bp_pc = "send_ui"
    /\ SendOutcome(TRUE, bp_ui_q) = "ok"
    /\ bp_ui_q' = bp_ui_q + 1
    /\ bp_pc' = "select"
    /\ UNCHANGED <<bp_engine_q, bp_history_q, bp_results, bp_hist, bp_workers, not_bp_vars>>

\* HistoryService::run takes one message: a Config is stored; a WarmUp
\* without config makes the loop return, else a WarmupJob is spawned and
\* the loop goes back to recv
BpHistoryRecv ==
    /\ bp_hist # "returned"
    /\ bp_history_q # <<>>
    /\ IF Head(bp_history_q) = "Config"
       THEN /\ bp_hist' = "ready"
            /\ bp_history_q' = Tail(bp_history_q)
            /\ UNCHANGED bp_workers
       ELSE IF bp_hist = "none"
       THEN /\ bp_hist' = "returned"
            /\ bp_history_q' = <<>>
            /\ UNCHANGED bp_workers
       ELSE /\ bp_history_q' = Tail(bp_history_q)
            /\ \E w \in BpJobs :
                  /\ bp_workers[w] = "idle"
                  /\ \A v \in BpJobs : bp_workers[v] = "idle" => w <= v
                  /\ bp_workers' = [bp_workers EXCEPT ![w] = "fetching"]
            /\ UNCHANGED bp_hist
    /\ UNCHANGED <<bp_engine_q, bp_ui_q, bp_pc, bp_results, not_bp_vars>>

\* WarmupJob::process up to send_khist_bundle: the fetches return and the
\* bundle is not empty, or a fetch fails or the bundle is empty
BpJobFetched(w) ==
    /\ bp_workers[w] = "fetching"
    /\ \E sends \in BOOLEAN :
          bp_workers' = [bp_workers EXCEPT ![w] = IF sends THEN "sending" ELSE "idle"]
    /\ UNCHANGED <<bp_engine_q, bp_history_q, bp_ui_q, bp_pc, bp_results, bp_hist,
                   not_bp_vars>>

\* WarmupJob::send_khist_bundle: engine_tx.send(message).await
BpJobSend(w) ==
    /\ bp_workers[w] = "sending"
    /\ LET outcome == SendOutcome(bp_pc # "ended", Len(bp_engine_q)) IN
       /\ outcome # "wait"
       /\ bp_engine_q' = IF outcome = "ok" THEN Append(bp_engine_q, "Bundle")
                         ELSE bp_engine_q
    /\ bp_workers' = [bp_workers EXCEPT ![w] = "idle"]
    /\ UNCHANGED <<bp_history_q, bp_ui_q, bp_pc, bp_results, bp_hist, not_bp_vars>>

\* the Presentation sink takes a batch
BpSinkRecv ==
    /\ bp_ui_q > 0
    /\ bp_ui_q' = bp_ui_q - 1
    /\ UNCHANGED <<bp_engine_q, bp_history_q, bp_pc, bp_results, bp_hist, bp_workers,
                   not_bp_vars>>

NextBackpressure ==
    \/ BpFeedSend
    \/ BpUiConfigEngine
    \/ BpUiConfigHistory
    \/ BpEngineRecv
    \/ BpEngineSendWarmup
    \/ BpEngineTick
    \/ BpEngineSendUi
    \/ BpHistoryRecv
    \/ \E w \in BpJobs : BpJobFetched(w)
    \/ \E w \in BpJobs : BpJobSend(w)
    \/ BpSinkRecv

SpecBackpressure == Init /\ [][NextBackpressure]_vars

\* the scheduling: the runtime runs every task that can go on, the sink
\* keeps polling, a job's fetches return, and the bounded channel gives
\* its room to the waiting senders in the order they came (so a sender
\* that finds room again and again is not passed over for ever)
SpecBackpressureFair ==
    /\ SpecBackpressure
    /\ WF_vars(BpEngineRecv)
    /\ WF_vars(BpEngineTick)
    /\ WF_vars(BpEngineSendUi)
    /\ SF_vars(BpEngineSendWarmup)
    /\ WF_vars(BpHistoryRecv)
    /\ WF_vars(BpSinkRecv)
    /\ \A w \in BpJobs : WF_vars(BpJobFetched(w)) /\ SF_vars(BpJobSend(w))

----------------------------------------------------------------------------
(* SpecBoundary: the Rsi of SpecValue across the end of a higher-timeframe *)
(* period (src/src/indicators/rsi.rs).  The calculator is built and primed *)
(* in the minute before the last of the period or in the last one, and the *)
(* bars of the minute of the clock and of the minute before reach it while *)
(* the clock runs on into the next period: a bar of the last minute of the *)
(* old period may arrive before or after the clock has left that period.   *)

\* the minutes the clock of SpecBoundary starts in
BoundaryStartMinutes == {3, 4}

\* the first live bar of the key builds the Rsi: Rsi::new, Indicator::update
BoundaryNew ==
    /\ win_calc = None
    /\ \E tf \in ValTimeframes, period \in ValPeriods, m \in BoundaryStartMinutes :
          LET now_ms == m * window_millis("M1") IN
          \E bar \in LiveBars("Rsi", now_ms) :
             LET res == update(CalculatorNew("Rsi", period, tf), bar, now_ms)
             IN /\ win_now' = now_ms
                /\ win_calc' = Some(res.calc)
                /\ win_call' = [op |-> "update", bar |-> bar, now |-> now_ms, out |-> res.out]
                /\ win_fed' = [last |-> Some(bar.open_time), in_order |-> TRUE]
    /\ UNCHANGED <<win_calls, not_win_vars>>

NextBoundary ==
    \/ BoundaryNew
    \/ ValTick
    \/ ValUpdate
    \/ ValUpdateKhist

SpecBoundary == Init /\ [][NextBoundary]_vars

----------------------------------------------------------------------------
(* SpecReprime: the calculator of SpecValue when a second bundle for its   *)
(* key reaches it after it was primed and has taken a live bar             *)
(* (IndicatorManager::update_khist looks the key up and calls update_khist *)
(* whatever the stage of the calculator is).                               *)

\* a later bundle for the key reaches the Ready calculator after a live
\* bar: Indicator::update_khist
ReprimeUpdateKhist ==
    /\ win_calc # None
    /\ Unwrap(win_calc).stage = "Ready"
    /\ win_call.op = "update"
    /\ LET c == Unwrap(win_calc) IN
       \E closes \in IF c.kind = "Rsi" THEN SeqsUpTo(HistPrices, MaxHist) ELSE {<<>>},
          shape \in IF c.kind = "Rsi" THEN {s \in FlatShapes : s.close = 1} ELSE Shapes :
          LET input == [indicator_tf |-> c.tf, hist_1m |-> ShapedHistory(win_now, shape),
                        hist_tf |-> HistTf(c.tf, win_now, closes, 1)]
          IN /\ win_calc' = Some(update_khist(c, input, win_now))
             /\ win_call' = [op |-> "update_khist", input |-> input, now |-> win_now]
    /\ UNCHANGED <<win_now, win_fed, win_calls, not_win_vars>>

NextReprime ==
    \/ ValNew
    \/ ValTick
    \/ ValUpdate
    \/ ValUpdateKhist
    \/ ReprimeUpdateKhist

SpecReprime == Init /\ [][NextReprime]_vars

----------------------------------------------------------------------------
(* SpecWarmup: the Engine together with the History Service and its        *)
(* WarmupJobs (src/src/history/mod.rs).  The Engine's arms are those of    *)
(* Spec, except that the bundles it receives are the ones the jobs send.   *)
(* A job is [pair, config, ep]; ep is a history field: the epoch of the    *)
(* Engine in which its request was sent (0 for a request of an epoch that  *)
(* is already over when the job is spawned).                               *)

\* history: the head of history_q is the request of the current epoch for
\* its pair (the Engine sends one per pair and epoch, and the queue is FIFO)
HeadIsCurrent ==
    /\ reqs[Head(history_q)] >= 1
    /\ Head(history_q) \notin Range(Tail(history_q))

\* HistoryService::run receives HistoryMessage::Config(config) from the UI
WarmupConfig ==
    /\ hist_state = "running"
    /\ \E c \in Configs : hist_config' = Some(c)
    /\ UNCHANGED <<hist_state, hist_jobs, hist_out, hist_failed, engine_vars, not_warmup_vars>>

\* HistoryService::run receives HistoryMessage::WarmUp(event): without a
\* config the loop returns (and the receiver is dropped), else it spawns a
\* WarmupJob with a clone of the config
WarmupSpawn ==
    /\ hist_state = "running"
    /\ history_open
    /\ history_q # <<>>
    /\ IF hist_config = None
       THEN /\ hist_state' = "returned"
            /\ history_open' = FALSE
            /\ history_q' = <<>>
            /\ UNCHANGED hist_jobs
       ELSE /\ history_q' = Tail(history_q)
            /\ hist_jobs' = hist_jobs \cup
                  {[pair |-> Head(history_q), config |-> Unwrap(hist_config),
                    ep |-> IF HeadIsCurrent THEN epoch ELSE 0]}
            /\ UNCHANGED <<hist_state, history_open>>
    /\ UNCHANGED <<hist_config, hist_out, hist_failed,
                   config, warmup_pending, warmup_done, rsi, vol, pending_results,
                   engine_state, ui_q, ui_open, epoch, reqs, primed, not_warmup_vars>>

\* WarmupJob::process: one of its fetch_history(..).await? returns Err; the
\* function returns before send_khist_bundle and the task logs a warning
WarmupJobFail ==
    /\ \E job \in hist_jobs :
          /\ hist_jobs' = hist_jobs \ {job}
          /\ hist_failed' = hist_failed \cup {<<job.pair, job.ep>>}
    /\ UNCHANGED <<hist_config, hist_state, hist_out, engine_vars, not_warmup_vars>>

\* WarmupJob::process: every fetch succeeds; the bundle holds the entries of
\* every enabled timeframe and is sent in one message if it is not empty.
\* A send on a full queue waits; a send to an Engine that is gone fails.
WarmupJobSend ==
    /\ \E job \in hist_jobs, enough \in BOOLEAN :
          LET bundle == WarmupBundle(job.config, job.pair, enough, TRUE) IN
          /\ hist_jobs' = hist_jobs \ {job}
          /\ IF bundle # <<>> /\ engine_state = "running"
             THEN /\ Len(hist_out) < QueueCap
                  /\ hist_out' = Append(hist_out, [event |-> bundle, pair |-> job.pair,
                                                   ep |-> job.ep])
             ELSE UNCHANGED hist_out
    /\ UNCHANGED <<hist_config, hist_state, hist_failed, engine_vars, not_warmup_vars>>

\* EngineMessage::KHistBundle(event) => self.handle_khist_bundle(event), for
\* the next bundle in flight
WarmupApplyBundle ==
    /\ engine_state = "running"
    /\ hist_out # <<>>
    /\ LET event == Head(hist_out).event
           m0 == [rsi |-> rsi, vol |-> vol, panicked |-> FALSE]
           m  == HandleKhistBundle(m0, event, 1)
       IN /\ rsi' = m.rsi
          /\ vol' = m.vol
          /\ engine_state' = IF m.panicked THEN "panicked" ELSE engine_state
          /\ primed' = primed \cup AppliedKeys(m0, event)
    /\ hist_out' = Tail(hist_out)
    /\ UNCHANGED <<hist_config, hist_state, hist_jobs, hist_failed,
                   config, warmup_pending, warmup_done, pending_results,
                   history_q, history_open, ui_q, ui_open, epoch, reqs, not_warmup_vars>>

NextWarmup ==
    \/ EngineFlush
    \/ EngineReboot
    \/ EngineConfig
    \/ EngineKline
    \/ UiRecv
    \/ WarmupConfig
    \/ WarmupSpawn
    \/ WarmupJobFail
    \/ WarmupJobSend
    \/ WarmupApplyBundle

SpecWarmup == Init /\ [][NextWarmup]_vars

\* SpecWarmup with the scheduling of the tasks: the tick of the flush
\* interval fires, the sink polls its queue, the tokio runtime runs the
\* History loop and every spawned job, a job's fetches return, and the
\* Engine takes the next message of its queue.  Nothing makes the feed
\* deliver another bar, a fetch fail or the user send a Config.
SpecWarmupFair ==
    /\ SpecWarmup
    /\ WF_vars(EngineFlush)
    /\ WF_vars(UiRecv)
    /\ WF_vars(WarmupSpawn)
    /\ WF_vars(WarmupJobFail \/ WarmupJobSend)
    /\ WF_vars(WarmupApplyBundle)

----------------------------------------------------------------------------
(* Vocabulary of the properties.                                           *)

\* the keys that have a calculator
CalculatorKeys == DOMAIN rsi \cup DOMAIN vol

\* a bar of pair p has gone through handle_kline since the last reboot
PairHasCalculator(p) == \E k \in CalculatorKeys : k[1] = p

\* the results the Engine holds or has sent and the sink has not yet taken
QueuedResults ==
    Range(pending_results) \cup UNION {Range(ui_q[i].results) : i \in 1..Len(ui_q)}

\* every pair of the active config has received a bar and had its bundle applied
AllPairsWarm ==
    /\ IsSome(config)
    /\ warmup_pending = Some({})
    /\ \A p \in ConfigPairs(Unwrap(config)) : \E k \in primed : k[1] = p

StageRank(s) == CASE s = "New" -> 0 [] s = "WarmUp" -> 1 [] s = "Ready" -> 2

----------------------------------------------------------------------------
(* C1 - C10                                                                *)

\* C1: a batch sent in the current epoch that holds only results of the
\* current epoch is sent only when every pair of the active config has
\* received a bar and has had its warmup bundle applied.
\* (Violated: handle_kline queues the results of a primed pair whatever
\* warmup_done is, and the flush does not consult warmup_done.)
C1_NoBatchBeforeAllPairsWarm ==
    \A i \in 1..Len(ui_q) :
        (/\ ui_q[i].epoch = epoch
         /\ \A r \in Range(ui_q[i].results) : r.epoch = epoch)
        => AllPairsWarm

\* C2: in every state, the number of HistoryRequests sent for a pair since
\* the last Reboot/Config is 1 if the pair is in the active config and one of
\* its bars has been processed since, and 0 otherwise (no bar yet, or the pair
\* is not in the config); it is never 2.
C2_OneRequestPerPair ==
    \A p \in PairNames :
        reqs[p] = IF /\ IsSome(config)
                     /\ p \in ConfigPairs(Unwrap(config))
                     /\ PairHasCalculator(p)
                  THEN 1 ELSE 0

\* C2 witness: under config A the first bar of X was answered by one request,
\* a bar of Y (not in the config) was processed without one, and later bars
\* of X went on to produce a result without a second request.
C2_Witness ==
    /\ config = Some(CfgA)
    /\ reqs["X"] = 1
    /\ reqs["Y"] = 0
    /\ PairHasCalculator("Y")
    /\ \E r \in Range(pending_results) : r.epoch = epoch /\ r.key[1] = "X"

\* C3: once a config is active, a bundle entry whose key has no calculator
\* does not end the Engine task.
\* (Violated: IndicatorManager::update_khist unwraps get_mut(&key).)
C3_MissingCalculatorIgnored ==
    IsSome(config) => engine_state # "panicked"

\* C4: a step that processes Config(c) leaves config = c, no calculator,
\* warmup_pending = the pairs of c and warmup_done = false; a step that
\* processes a Reboot leaves the config as it was and, when a config is held,
\* the same three facts; no other step replaces the config.
C4_RebootResets ==
    [][ /\ epoch' # epoch =>
              /\ rsi' = <<>>
              /\ vol' = <<>>
              /\ warmup_done' = FALSE
              /\ warmup_pending' = IF config' = <<>> THEN <<>>
                                   ELSE << {config'[1].pairs[i] :
                                               i \in 1..Len(config'[1].pairs)} >>
        /\ EngineConfig => (epoch' # epoch /\ \E c \in Configs : config' = <<c>>)
        /\ EngineReboot => (epoch' # epoch /\ config' = config)
        /\ config' # config => EngineConfig
      ]_vars

\* C4 witness: Config(B) has just been processed in a state that held
\* results (so calculators existed and were Ready before it).
C4_Witness ==
    /\ config = Some(CfgB)
    /\ epoch = MaxEpoch
    /\ rsi = <<>>
    /\ vol = <<>>
    /\ warmup_pending = Some({"X", "Y"})
    /\ ~warmup_done
    /\ pending_results # <<>>

\* C5: every result of a batch was queued in the epoch in which the batch
\* is sent.
\* (Violated: handle_reboot leaves pending_results as it is.)
C5_NoStaleResultDelivered ==
    \A i \in 1..Len(ui_q) :
        \A r \in Range(ui_q[i].results) : r.epoch = ui_q[i].epoch

\* C6: for every pair of the active config, a result queued since the last
\* Config/Reboot comes from a calculator to which a bundle entry was applied
\* since then, and (unless a request's send failed) one request has been
\* sent for the pair since then exactly if its first bar has been processed.
C6_RewarmupAfterReconfig ==
    IsSome(config) =>
        \A p \in ConfigPairs(Unwrap(config)) :
            /\ \A r \in QueuedResults :
                  (r.epoch = epoch /\ r.key[1] = p) => r.key \in primed
            /\ engine_state # "failed" =>
                  /\ reqs[p] \in {0, 1}
                  /\ reqs[p] = 1 <=> p \notin Unwrap(warmup_pending)

\* C6 witness: warmup completed under A (a result of X in slot 0, the slot
\* X has under A and not under B, is still queued), B was then processed,
\* X and Y each got one request, and a bar of X that followed a bundle of X
\* produced a new result.
C6_Witness ==
    /\ config = Some(CfgB)
    /\ \E r \in QueuedResults :
          r.epoch < epoch /\ r.key = Key("X", "M5", "Volatility") /\ r.idx = 0
    /\ reqs = [p \in PairNames |-> 1]
    /\ \E r \in QueuedResults : r.epoch = epoch /\ r.key[1] = "X"

\* C7: while no Config has been received, the Engine keeps running (or has
\* stopped because its input closed), no request has been sent, no calculator
\* exists and no result is queued or sent.
\* (Violated by a non-empty HistoryBundle: update_khist unwraps a missing key.)
C7_DroppedWithoutConfig ==
    config = None =>
        /\ engine_state \in {"running", "stopped"}
        /\ reqs = [p \in PairNames |-> 0]
        /\ history_q = <<>>
        /\ CalculatorKeys = {}
        /\ pending_results = <<>>
        /\ ui_q = <<>>

\* C8: in every call on a calculator the stage does not move backwards, an
\* update in New moves to WarmUp, a move to Ready is made by update_khist
\* only, and an update that returns a value was made in stage Ready.
C8_StageForward ==
    [][ /\ StageRank(calc_rsi'.stage) >= StageRank(calc_rsi.stage)
        /\ StageRank(calc_vol'.stage) >= StageRank(calc_vol.stage)
        /\ (calc_out'.call = "rsi_update" /\ calc_rsi.stage = "New")
              => calc_rsi'.stage = "WarmUp"
        /\ (calc_out'.call = "vol_update" /\ calc_vol.stage = "New")
              => calc_vol'.stage = "WarmUp"
        /\ (calc_rsi'.stage = "Ready" /\ calc_rsi.stage # "Ready")
              => calc_out'.call = "rsi_update_khist"
        /\ (calc_vol'.stage = "Ready" /\ calc_vol.stage # "Ready")
              => calc_out'.call = "vol_update_khist"
        /\ (calc_out'.call = "rsi_update" /\ calc_out'.out)
              => calc_rsi.stage = "Ready"
        /\ (calc_out'.call = "vol_update" /\ calc_out'.out)
              => calc_vol.stage = "Ready"
      ]_vars

\* C8 witness: an Rsi that went New -> WarmUp -> Ready has just returned a
\* value from update, next to a Volatility that an update left in WarmUp.
C8_Witness ==
    /\ calc_rsi.stage = "Ready"
    /\ calc_out = [call |-> "rsi_update", out |-> TRUE]
    /\ calc_vol.stage = "WarmUp"
    /\ calc_calls = MaxCalls

\* C9: no batch in flight is empty; a step that sends a batch sends the
\* whole pending vector, which is non-empty, under an active config, and
\* leaves it empty; any other step that changes the pending vector appends
\* to it (or is the failed send to a sink that is gone); the queue to the
\* sink otherwise only loses its head (or everything when the sink goes);
\* and whenever results are pending under an active config and the queue has
\* room, the flush tick sends them.
C9_FlushWholeBatch ==
    [][ /\ \A i \in 1..Len(ui_q') : ui_q'[i].results # <<>>
        /\ Len(ui_q') > Len(ui_q) =>
              /\ config # <<>>
              /\ pending_results # <<>>
              /\ ui_q' = Append(ui_q, [results |-> pending_results, epoch |-> epoch])
              /\ pending_results' = <<>>
        /\ (Len(ui_q') <= Len(ui_q) /\ pending_results' # pending_results) =>
              \/ /\ ui_q' = ui_q
                 /\ Len(pending_results') > Len(pending_results)
                 /\ SubSeq(pending_results', 1, Len(pending_results)) = pending_results
              \/ /\ ~ui_open
                 /\ pending_results' = <<>>
                 /\ engine_state' = "failed"
        /\ (Len(ui_q') <= Len(ui_q) /\ ui_q' # ui_q) =>
              /\ pending_results' = pending_results
              /\ ui_q' = Tail(ui_q) \/ (ui_q' = <<>> /\ ~ui_open')
        /\ (/\ engine_state = "running"
            /\ config # <<>>
            /\ pending_results # <<>>
            /\ ui_open
            /\ Len(ui_q) < QueueCap) =>
              ENABLED (EngineFlush /\ Len(ui_q') > Len(ui_q))
      ]_vars

\* C9 witness: the flush has sent a batch of three results in the order
\* they were queued (one that was pending, then the Rsi and the Volatility
\* result of one later bar) and has left the pending vector empty.
C9_Witness ==
    /\ Len(ui_q) = 1
    /\ Len(ui_q[1].results) = 3
    /\ ui_q[1].results[1].epoch < ui_q[1].results[2].epoch
    /\ ui_q[1].results[2].value = "Rsi"
    /\ ui_q[1].results[3].value = "Volatility"
    /\ pending_results = <<>>

\* C10: when the Engine has stopped because its input closed and the
\* Presentation queue is open, no result is left pending.
\* (Violated: run returns Ok(()) on recv() = None without a flush.)
C10_FlushOnClose ==
    (engine_state = "stopped" /\ ui_open) => pending_results = <<>>

----------------------------------------------------------------------------
(* Properties of the Live Feed, checked under SpecWs.                       *)

\* how many times the Live Feed has sent Reboot("ws starting")
StartReboots(out) ==
    Cardinality({i \in DOMAIN out : out[i] = RebootMsg("ws starting")})

\* the step ends a stream by a close (Ok) or an error (Err)
StreamEnds == IsSome(ws_stream) /\ ws_stream' = None /\ ws_restart' \in {"Stream_Ok", "Stream_Err"}

\* the step hands a BarEvent to the Engine
ForwardsKline == Len(ws_out') = Len(ws_out) + 1 /\ ws_out'[Len(ws_out')].type = "Kline"

\* C11: the Live Feed sends Reboot("ws starting") at most once, as its first
\* message, once it holds a Config, so before any BarEvent; every stream
\* that ends by a close or an error sends exactly one Reboot (while the
\* Engine still listens) and puts the loop to sleep for the reconnect delay;
\* a sleeping loop sends nothing and opens no stream before it wakes; a
\* BarEvent is forwarded only by a connected stream.
C11_RebootThenDelay ==
    [][ /\ StartReboots(ws_out') <= 1
        /\ ws_out' # <<>> => ws_out'[1] = RebootMsg("ws starting") /\ IsSome(ws_config')
        /\ StreamEnds /\ ws_engine_open =>
              /\ ws_out' = Append(ws_out, RebootMsg(IF ws_restart' = "Stream_Ok"
                                                    THEN "ws closed" ELSE "ws error"))
              /\ ws_pc' = "sleeping"
        /\ ws_pc = "sleeping" =>
              /\ ws_out' = ws_out
              /\ ws_stream' = None
              /\ ws_pc' \in {"sleeping", "top"}
        /\ ForwardsKline => IsSome(ws_stream) /\ Unwrap(ws_stream).connected
      ]_vars

\* a start reboot, a bar, a close with its Reboot, the delay, a new
\* connection and a bar again
C11_Witness ==
    /\ Len(ws_out) = 4
    /\ ws_out[1] = RebootMsg("ws starting")
    /\ ws_out[2].type = "Kline"
    /\ ws_out[3] = RebootMsg("ws closed")
    /\ ws_out[4].type = "Kline"
    /\ ws_pc = "streaming"

\* C12: a Config received while a stream runs drops the stream and puts the
\* loop to sleep without any message to the Engine, and every stream is
\* opened with the config the Live Feed holds, so the next one uses the new
\* config.  (The Reboot the Engine performs on its own Config message is
\* EngineConfig of Spec: C4, C6.)
C12_SilentConfigRestart ==
    [][ /\ ws_pc = "streaming" /\ ws_rx # <<>> /\ ws_rx' = Tail(ws_rx) =>
              /\ ws_out' = ws_out
              /\ ws_stream' = None
              /\ ws_config' = Some(Head(ws_rx))
              /\ ws_restart' = "ConfigUpdate"
        /\ IsSome(ws_stream') => Unwrap(ws_stream').config = Unwrap(ws_config')
      ]_vars

\* a stream of CfgB running after a config update replaced CfgA, and the
\* only Reboot sent so far is the start reboot
C12_Witness ==
    /\ ws_restart = "ConfigUpdate"
    /\ IsSome(ws_stream)
    /\ Unwrap(ws_stream).connected
    /\ Unwrap(ws_stream).config = CfgB
    /\ Len(ws_out) = 2
    /\ ws_out[1] = RebootMsg("ws starting")
    /\ ws_out[2] = KlineMsg("X")

\* C13: a stream whose config has no pairs ends the task with the
\* configuration error: no Reboot is sent and the loop does not go on.
\* (Violated: the error of build_stream_url is handled like a transport
\* error, with a Reboot and the reconnect delay.)
C13_EmptyPairsTerminates ==
    [][ StreamEnds /\ ~BuildStreamUrlOk(Unwrap(ws_stream).config) =>
              /\ ws_out' = ws_out
              /\ ws_pc' = "failed"
      ]_vars

----------------------------------------------------------------------------
(* Properties of IndexLookup, checked under SpecLookup.                     *)

\* the indicator of the query is enabled in the config and lists the timeframe
QueryListed(c, q) ==
    IF q.indicator = "Volatility"
    THEN c.vol_enabled /\ q.timeframe \in Range(c.vol_timeframes)
    ELSE c.rsi_enabled /\ q.timeframe \in Range(c.rsi_timeframes)

\* index() answers Some exactly for the enabled indicator, listed timeframe
\* and listed pair
C15_IndexIff ==
    IsSome(lk_result) =>
        LET c == Unwrap(lk_config)
            q == Unwrap(lk_query)
        IN IsSome(Unwrap(lk_result)) <=> (QueryListed(c, q) /\ q.pair \in ConfigPairs(c))

\* every index returned is below pair_count() * pair_stride()
C15_IndexInRange ==
    IsSome(lk_result) /\ IsSome(Unwrap(lk_result)) =>
        LET lookup == ConfigIndexLookup(Unwrap(lk_config))
        IN Unwrap(Unwrap(lk_result)) < PairCount(lookup) * PairStride(lookup)

\* C15: for every lookup built from a config, with any pair list, index()
\* returns Some(i) exactly when the indicator is enabled, the timeframe is
\* listed and the pair is in the list, and every such i is below
\* pair_count() * pair_stride().
\* (Violated: a pair behind a repeated pair keeps its list position as id,
\* while pair_count() counts distinct pairs.)
C15_IndexTotalAndInRange == C15_IndexIff /\ C15_IndexInRange

----------------------------------------------------------------------------
(* Properties of the calculators' rings of 1m bars, checked under SpecWin.  *)

\* the bars of the calculator's 1m window, front first (none without a window)
WindowBars(calc) ==
    IF calc = None \/ Unwrap(calc).window_1m_bars = None THEN <<>>
    ELSE Unwrap(Unwrap(calc).window_1m_bars).buffer

\* the calculator is a Ready one of this kind
ReadyCalc(calc, kind) ==
    calc # None /\ Unwrap(calc).kind = kind /\ Unwrap(calc).stage = "Ready"

\* every bar of w opens in the WinTf period that contains ts
InPeriodOf(w, ts) ==
    \A i \in 1..Len(w) :
        /\ nearest_ms(WinTf, ts) <= w[i].open_time
        /\ w[i].open_time < nearest_ms(WinTf, ts) + window_millis(WinTf)

\* the step is a call of update / of update_khist
UpdateStep == win_calls' = win_calls + 1 /\ win_call'.op = "update"

UpdateKhistStep == win_calls' = win_calls + 1 /\ win_call'.op = "update_khist"

\* C16: after each update of a Ready Rsi fed bars of non-decreasing
\* open_time, whatever the clock read, the window holds at most
\* T-in-minutes bars and all of them open in the period of the tail bar.
\* (Violated: the window is trimmed by the period of the clock, not of the
\* bar, so a clock behind the feed keeps the bars of the old period.)
C16_RsiWindowInPeriodOfTail ==
    ReadyCalc(win_calc, "Rsi") /\ win_call.op = "update" /\ win_fed.in_order =>
        LET w == WindowBars(win_calc) IN
        /\ Len(w) <= window_minutes(WinTf)
        /\ w # <<>> => InPeriodOf(w, w[Len(w)].open_time)

\* C17: after priming and after every live update the window of a
\* Volatility holds only bars of the period that contains the clock reading
\* of the call, and at priming it is the window Rsi builds from the same
\* pre-warmup buffer, history and clock.
\* (Violated: Volatility primes a rolling window of the last T minutes and
\* never trims by period.)
C17_VolatilityWindowInCurrentPeriod ==
    [][ (UpdateStep \/ UpdateKhistStep) /\ ReadyCalc(win_calc', "Volatility") =>
            /\ InPeriodOf(WindowBars(win_calc'), win_call'.now)
            /\ UpdateKhistStep =>
                  Unwrap(win_calc').window_1m_bars =
                      set_window_1m_bars_from_history(Unwrap(win_calc), win_call'.input,
                                                      win_call'.now).window_1m_bars
      ]_vars

\* C18: in the window of either calculator two consecutive bars are exactly
\* one minute apart, or equal in open_time when the second is the open tail.
\* (Violated: a minute missing from the history or skipped by the feed
\* leaves a gap of two minutes.)
C18_WindowContiguous ==
    LET w == WindowBars(win_calc) IN
    \A i \in 1..(Len(w) - 1) :
        \/ w[i + 1].open_time - w[i].open_time = window_millis("M1")
        \/ /\ w[i + 1].open_time = w[i].open_time
           /\ i + 1 = Len(w)
           /\ ~w[i + 1].closed

\* the ring an update of this calculator works on: the pre-warmup buffer
\* before Ready, the window in Ready
LiveRing(calc) ==
    IF Unwrap(calc).stage = "Ready" THEN Unwrap(calc).window_1m_bars
    ELSE Some(Unwrap(calc).buffer)

\* C19: in the buffer and in the window of both calculators a bar whose
\* open_time is the tail's replaces the tail when the tail is open and
\* leaves the ring as it is when the tail is closed.
\* (Violated: Rsi::update_window replaces the tail without testing closed.)
C19_ClosedTailNotReplaced ==
    [][ UpdateStep /\ LiveRing(win_calc) # None =>
            LET ring == Unwrap(LiveRing(win_calc))
                tail == back(ring)
                bar == win_call'.bar
                after == [calc |-> win_calc', stage |-> Unwrap(win_calc).stage]
                ring_after == IF after.stage = "Ready"
                              THEN Unwrap(Unwrap(after.calc).window_1m_bars)
                              ELSE Unwrap(after.calc).buffer
            IN tail # None /\ Unwrap(tail).open_time = bar.open_time =>
                  ring_after = IF Unwrap(tail).closed THEN ring
                               ELSE replace_last(ring, bar)
      ]_vars

\* C20: an update of a Ready calculator with a bar older than the tail of
\* its window changes nothing in the calculator and returns no output.
\* (Violated: update returns self.value whatever update_window did.)
C20_OutOfOrderDropped ==
    [][ /\ UpdateStep
        /\ Unwrap(win_calc).stage = "Ready"
        /\ WindowBars(win_calc) # <<>>
        /\ WindowBars(win_calc)[Len(WindowBars(win_calc))].open_time > win_call'.bar.open_time
        => /\ win_calc' = win_calc
           /\ win_call'.out = None
      ]_vars

----------------------------------------------------------------------------
(* Properties of the warmup protocol, checked under SpecWarmup.             *)

\* the job of the request the Engine sent for pair p in the current epoch
\* has failed
RequestFailed(p) == <<p, epoch>> \in hist_failed

\* a failed job has sent no bundle, and its request is not sent again
C14_NoBundleNoRetry ==
    \A p \in PairNames :
        RequestFailed(p) =>
            /\ \A i \in 1..Len(hist_out) : ~(hist_out[i].pair = p /\ hist_out[i].ep = epoch)
            /\ \A job \in hist_jobs : ~(job.pair = p /\ job.ep = epoch)
            /\ reqs[p] = 1

\* the calculators of a pair whose request failed are not Ready and no
\* result of theirs is queued
C14_PairStaysInWarmUp ==
    \A p \in PairNames :
        RequestFailed(p) =>
            /\ \A k \in DOMAIN rsi : k[1] = p => rsi[k].stage # "Ready"
            /\ \A k \in DOMAIN vol : k[1] = p => vol[k].stage # "Ready"
            /\ \A r \in QueuedResults : r.epoch = epoch => r.key[1] # p

Amendments(kind, b1) ==
    {[b1 EXCEPT !.closed = closed, !.open = shape.open, !.high = shape.high,
                !.low = shape.low, !.close = shape.close] :
        closed \in BOOLEAN, shape \in ShapesOf(kind)}

\* C21: when a Ready calculator has taken an open bar b1, taking a bar b2 of
\* the same open_time next leaves the window as long as it was after b1, and
\* the calculator and the value returned are those of taking b2 in place of
\* b1.  (Violated: Volatility::update_window recomputes the aggregate of the
\* closed bars only when it pushes, so a closed b2 that replaces the open b1
\* of the minute before the clock's is missing from it.)
C21_AmendmentIdempotent ==
    [][(/\ UpdateStep
        /\ win_calc # None
        /\ Unwrap(win_calc).stage = "Ready"
        /\ ~win_call'.bar.closed)
       => LET c == Unwrap(win_calc)
              after_b1 == Unwrap(win_calc')
          IN \A b2 \in Amendments(c.kind, win_call'.bar) :
                LET both == update(after_b1, b2, win_now)
                IN /\ both = update(c, b2, win_now)
                   /\ Len(WindowBars(Some(both.calc))) = Len(WindowBars(win_calc'))]_vars

\* b2 is a closing amendment Volatility::update_window takes without
\* recomputing the aggregate although b2 now counts for it: a closed bar
\* that does not open in the minute of the clock
StaleAggregate(kind, b2, now_ms) ==
    kind = "Volatility" /\ b2.closed /\ b2.open_time # nearest_ms("M1", now_ms)

\* C21 (amended): as C21, for every amendment b2 but the closed bar of a
\* minute before the clock's on a Volatility calculator.
C21_AmendmentIdempotentButStaleAggregate ==
    [][(/\ UpdateStep
        /\ win_calc # None
        /\ Unwrap(win_calc).stage = "Ready"
        /\ ~win_call'.bar.closed)
       => LET c == Unwrap(win_calc)
              after_b1 == Unwrap(win_calc')
          IN \A b2 \in Amendments(c.kind, win_call'.bar) :
                ~StaleAggregate(c.kind, b2, win_now)
                => \A both \in {update(after_b1, b2, win_now)} :
                      /\ both = update(c, b2, win_now)
                      /\ Len(WindowBars(Some(both.calc))) = Len(WindowBars(win_calc'))]_vars

\* a Ready calculator has taken the open bar b1 as the tail of its window
\* and returned a value, and an amendment of b1 would change the calculator
C21_Witness ==
    /\ win_calc # None
    /\ Unwrap(win_calc).stage = "Ready"
    /\ win_call.op = "update"
    /\ ~win_call.bar.closed
    /\ win_call.out # None
    /\ WindowBars(win_calc) # <<>>
    /\ WindowBars(win_calc)[Len(WindowBars(win_calc))] = win_call.bar
    /\ \E b2 \in Amendments(Unwrap(win_calc).kind, win_call.bar) :
          /\ ~StaleAggregate(Unwrap(win_calc).kind, b2, win_now)
          /\ update(Unwrap(win_calc), b2, win_now).calc # Unwrap(win_calc)

\* the bars of hist_tf that open in a period strictly before the one of
\* now_ms
StrictlyPrior(input, now_ms) ==
    LET before(bar) == bar.open_time + window_millis(input.indicator_tf)
                          <= nearest_ms(input.indicator_tf, now_ms)
    IN SelectSeq(input.hist_tf, before)

C23_ConfigPeriodUsed ==
    [][/\ (win_calc = None /\ win_calc' # None)
          => Unwrap(win_calc').period = Unwrap(mgr_length)
       /\ (/\ UpdateKhistStep
           /\ mgr_length = Some(3)
           /\ Len(StrictlyPrior(win_call'.input, win_now)) = 10)
          => /\ Unwrap(win_calc').previous_bar # None
             /\ \A bar \in LiveBars("Rsi", win_now) :
                   update(Unwrap(win_calc'), bar, win_now).out # None]_vars

\* the closes of the bars of a sequence never decrease
NonDecreasing(bars) ==
    \A i \in 1..(Len(bars) - 1) : bars[i].close <= bars[i + 1].close

\* the step is the first update of an Rsi after the update_khist that
\* primed it from at least period + 1 prior closes, none below the one
\* before it, and the close of its bar is not below the last of them
C24_Case ==
    /\ UpdateStep
    /\ ReadyCalc(win_calc, "Rsi")
    /\ win_call.op = "update_khist"
    /\ LET prior == StrictlyPrior(win_call.input, win_call.now)
       IN /\ Len(prior) >= Unwrap(win_calc).period + 1
          /\ NonDecreasing(prior)
          /\ prior[Len(prior)].close <= win_call'.bar.close

\* the window takes the bar of the step as its tail without rolling over
\* into a new period: the bar is not older than the tail, and is not pushed
\* onto a window whose front opens before the period of the clock
C24_TakenInPeriod ==
    LET w == WindowBars(win_calc)
        bar == win_call'.bar
    IN \/ w = <<>>
       \/ w[Len(w)].open_time = bar.open_time
       \/ /\ w[Len(w)].open_time < bar.open_time
          /\ nearest_ms(Unwrap(win_calc).tf, win_now) <= w[1].open_time

\* C24: the first live bar after an Rsi was primed from at least period + 1
\* prior closes that never decrease returns 100 when its close is not below
\* the last of them.  (Violated: a bar older than the tail of the window is
\* ignored and the value is the one of the tail; a bar that rolls the window
\* over into a new period first makes a Wilder step to the close of the old
\* tail, which may be lower than the last prior close or higher than the
\* bar's close.)
C24_NonDecreasingGives100 ==
    [][C24_Case => win_call'.out = Some(Whole(100))]_vars

\* C24 (amended): as C24, for a bar the window takes as its tail without
\* rolling over into a new period.
C24_NonDecreasingGives100InPeriod ==
    [][(C24_Case /\ C24_TakenInPeriod) => win_call'.out = Some(Whole(100))]_vars

\* an Rsi primed from rising closes has taken a live bar above the last of
\* them as the tail of its window and returned 100
C24_Witness ==
    /\ ReadyCalc(win_calc, "Rsi")
    /\ win_call.op = "update"
    /\ win_calls = 2
    /\ Unwrap(win_calc).previous_bar # None
    /\ Unwrap(Unwrap(win_calc).previous_bar).avg_loss = Whole(0)
    /\ Unwrap(Unwrap(win_calc).previous_bar).avg_gain # Whole(0)
    /\ Unwrap(Unwrap(win_calc).previous_bar).close < win_call.bar.close
    /\ WindowBars(win_calc)[Len(WindowBars(win_calc))] = win_call.bar
    /\ win_call.out = Some(Whole(100))

\* C25: the value of an Rsi, and with it every value an update returns, is
\* at least 0 and at most 100, and avg_gain and avg_loss of previous_bar are
\* never negative: after priming, after a Wilder step at a period boundary
\* and after every live bar (prices being finite numbers).
C25_RsiInRange ==
    (win_calc # None /\ Unwrap(win_calc).kind = "Rsi")
    => LET c == Unwrap(win_calc) IN
       /\ c.value # None
          => /\ FracLe(Whole(0), Unwrap(c.value))
             /\ FracLe(Unwrap(c.value), Whole(100))
       /\ c.previous_bar # None
          => /\ FracLe(Whole(0), Unwrap(c.previous_bar).avg_gain)
             /\ FracLe(Whole(0), Unwrap(c.previous_bar).avg_loss)
       /\ (win_call.op = "update" /\ win_call.out # None)
          => /\ FracLe(Whole(0), Unwrap(win_call.out))
             /\ FracLe(Unwrap(win_call.out), Whole(100))

\* a 1m Rsi has rolled over into the minute after the one it was primed in
\* and returned a value strictly between 0 and 100, from averages that are
\* both positive
C25_Witness ==
    /\ ReadyCalc(win_calc, "Rsi")
    /\ Unwrap(win_calc).tf = "M1"
    /\ win_call.op = "update"
    /\ win_call.out # None
    /\ FracLt(Whole(0), Unwrap(win_call.out))
    /\ FracLt(Unwrap(win_call.out), Whole(100))
    /\ FracLt(Whole(0), Unwrap(Unwrap(win_calc).previous_bar).avg_gain)
    /\ FracLt(Whole(0), Unwrap(Unwrap(win_calc).previous_bar).avg_loss)
    /\ WindowBars(win_calc) = <<win_call.bar>>
    /\ win_call.bar.open_time = nearest_ms("M1", win_now)
    /\ \A m \in ValStartMinutes : m * window_millis("M1") < win_call.bar.open_time

\* C26: a Ready Volatility without an aggregate of closed bars holds the
\* value of the last bar of its window alone, (high - low) / low * 100 cut
\* to four decimals, positive exactly when last.close >= last.open.
\* (Violated: Volatility::set_value tests last.open < last.close, so a bar
\* that closes where it opened gets the sign -1.)
C26_SignOfSingleBar ==
    (/\ ReadyCalc(win_calc, "Volatility")
     /\ Unwrap(win_calc).aggr_closed_bars = None
     /\ WindowBars(win_calc) # <<>>)
    => LET last == WindowBars(win_calc)[Len(WindowBars(win_calc))]
           sign == IF last.close >= last.open THEN 1 ELSE -1
           extent == FracMul(Frac(last.high - last.low, last.low), Whole(100 * sign))
       IN /\ Unwrap(win_calc).value = Some(Truncate4(extent))
          /\ win_call.op = "update" => win_call.out = Some(Truncate4(extent))

\* the calculator of SpecPeriod has been fed, in order, the five bars of
\* the period, the first four of them closed, and the last call was the
\* update with the bar of the last minute
C27_Case ==
    /\ ReadyCalc(win_calc, "Volatility")
    /\ win_fed.in_order
    /\ win_call.op = "update"
    /\ win_call.bar.open_time = PeriodLastMinute * window_millis("M1")
    /\ LET w == WindowBars(win_calc)
       IN /\ Len(w) = window_minutes("M5")
          /\ \A i \in 1..Len(w) : w[i].open_time = (i - 1) * window_millis("M1")
          /\ \A i \in 1..(Len(w) - 1) : w[i].closed
          /\ w[Len(w)] = win_call.bar

\* C27: with the lowest low of the period in its first bar and the highest
\* high in its last, the value returned for the last bar is +(high - low) /
\* low * 100 over the five bars, cut to four decimals, whatever the highs
\* and lows of the bars between.  (Violated: the sign is taken from the
\* aggregate of the closed bars before the last one; when none of the bars
\* between rises above the high of the first bar, high_ts = low_ts and the
\* sign is -1.)
C27_SignFlipPositive ==
    C27_Case
    => LET w == WindowBars(win_calc)
           extent == FracMul(Frac(MaxHigh(w) - MinLow(w), MinLow(w)), Whole(100))
       IN /\ FracLt(Whole(0), Unwrap(win_call.out))
          /\ win_call.out = Some(Truncate4(extent))

\* ------------------------------------------------------------------------
\* Properties of the history a WarmupJob gathers (SpecJob)
\* ------------------------------------------------------------------------

\* the bars of strictly prior periods in a history at timeframe tf that
\* starts at `start` and holds every bar up to now_ms
PriorPeriods(tf, start, now_ms) ==
    IF nearest_ms(tf, now_ms) <= start THEN 0
    ELSE (nearest_ms(tf, now_ms) - start) \div window_millis(tf)

\* C28: for every Rsi timeframe of the job, 1m too, the history at that
\* timeframe starts at least length + 1 periods before the period of
\* start_ts, so that a bundle applied at or after start_ts holds at least
\* length + 1 bars of strictly prior periods.  (Violated: the 1m history is
\* the base history cut at floor_1m(start_ts), no period before it.)
C28_HistoryReachesBack ==
    \A tf \in DOMAIN job_starts :
        LET event == Unwrap(job_event) IN
        /\ job_starts[tf] + (event.length + 1) * window_millis(tf)
              <= nearest_ms(tf, event.start_ts)
        /\ job_pc = "sent"
           => PriorPeriods(tf, job_starts[tf], job_now) >= event.length + 1

\* ------------------------------------------------------------------------
\* Properties of the paginated fetch (SpecFetchFair)
\* ------------------------------------------------------------------------

\* fetch_history has returned, with the history or with the adapter's error
FetchOver == fetch_pc \in {"done", "failed"}

\* the step is a turn of the loop that got an answer; fetch_call' is the turn
FetchTurn == fetch_pc = "loop" /\ fetch_pc' # "failed" /\ fetch_call' # None

\* a turn with an empty batch, or with last open_time + T at or after the
\* clock, ends the fetch; any other turn is followed by a request that
\* starts at last open_time + T, later than this one
C29_Turns ==
    [][FetchTurn
       => LET batch == Unwrap(fetch_call').batch
              now == fetch_behind + Unwrap(fetch_call').elapsed
              last == batch[Len(batch)]
          IN IF batch = <<>> \/ last + window_millis(FetchTf) >= now
             THEN fetch_pc' = "done"
             ELSE /\ fetch_pc' = "loop"
                  /\ now - fetch_behind' = last + window_millis(FetchTf)
                  /\ now - fetch_behind' > 0]_vars

\* no turn appends a bar the history holds already
C29_NoBarTwice == fetch_call # None => Unwrap(fetch_call).twice = {}

\* C29: a paginated fetch ends, whatever the adapter answers within its
\* contract; it stops at an empty batch or when last open_time + T >= now,
\* every further request starts at last open_time + T, later than the one
\* before, and no bar is appended twice.  (Violated: when every request
\* takes as long as the span of the bars it returns, the clock stays ahead
\* of start and the loop goes on for ever.)
C29_FetchTerminates ==
    /\ C29_Turns
    /\ []C29_NoBarTwice
    /\ (fetch_pc = "loop") ~> FetchOver

\* C29 (amended): as C29, the fetch ending unless some request takes at
\* least as long as the span from its start to the start of the next one.
C29_FetchTerminatesUnlessSlow ==
    /\ C29_Turns
    /\ []C29_NoBarTwice
    /\ (fetch_pc = "loop") ~> (FetchOver \/ fetch_slow)

\* the fetch has ended at its second request or later, with a batch that
\* reaches the clock, and no request was slow
C29_Witness ==
    /\ fetch_pc = "done"
    /\ fetch_paged
    /\ ~fetch_slow
    /\ Unwrap(fetch_call).batch # <<>>
    /\ fetch_recent # {}

\* ------------------------------------------------------------------------
\* Properties of the rate limiter (SpecLimiter)
\* ------------------------------------------------------------------------

\* the calls admitted at an instant of [from, from + LimWindow)
AdmittedIn(from) ==
    {i \in DOMAIN lim_admitted :
        from <= lim_admitted[i] /\ lim_admitted[i] < from + LimWindow}

\* C30: however the tasks interleave, at most LimMaxCalls calls are
\* admitted in any stretch of time of the length of the window, and the
\* call admitted LimMaxCalls calls after another is admitted no earlier
\* than a window after it (the (N+1)th after the 1st).
C30_AtMostNPerWindow ==
    /\ \A from \in 0..LimMaxNow : Cardinality(AdmittedIn(from)) <= LimMaxCalls
    /\ \A i \in DOMAIN lim_admitted :
          i + LimMaxCalls \in DOMAIN lim_admitted
          => lim_admitted[i + LimMaxCalls] >= lim_admitted[i] + LimWindow

\* LimMaxCalls calls were admitted at one instant, a task then slept in
\* acquire, and the next call was admitted exactly a window later
C30_Witness ==
    /\ Len(lim_admitted) > LimMaxCalls
    /\ lim_admitted[LimMaxCalls] = lim_admitted[1]
    /\ lim_admitted[LimMaxCalls + 1] = lim_admitted[1] + LimWindow
    /\ \E t \in Tasks : lim_wake[t] = lim_admitted[LimMaxCalls + 1]

\* ------------------------------------------------------------------------
\* Properties of Timeframe::nearest_ms (SpecFloor)
\* ------------------------------------------------------------------------

\* C31: for every timeframe and every timestamp of either sign, floor_T(ts)
\* is a multiple of the window, floor_T(ts) <= ts < floor_T(ts) + window,
\* and floor_T(floor_T(ts)) = floor_T(ts).
\* (Violated: the % of i64 has the sign of the dividend, so a negative
\* timestamp that is no multiple of the window is rounded up, towards 0.)
C31_FloorIsLargestMultiple ==
    floor_call # None
    => LET c == Unwrap(floor_call)
           w == window_millis(c.tf)
       IN /\ rem(c.out, w) = 0
          /\ c.out <= c.ts
          /\ c.ts < c.out + w
          /\ c.again # None => Unwrap(c.again) = c.out

\* ------------------------------------------------------------------------
\* Properties of RingBuffer (SpecRing)
\* ------------------------------------------------------------------------

\* max(c, 1) for the capacity c the buffer was asked for
ClampedCapacity == IF ring_requested < 1 THEN 1 ELSE ring_requested

\* C32: under every sequence of push, replace_last, clear and
\* retain_by_open_time on a RingBuffer asked for capacity c, the length
\* never exceeds max(c, 1); a push on a full buffer removes and returns the
\* oldest element and keeps the others in insertion order, a push on a
\* buffer that is not full returns nothing and appends; replace_last never
\* changes the length, and on an empty buffer changes nothing and returns
\* nothing.
C32_RingBufferContract ==
    ring_rb # None
    => LET buffer == Unwrap(ring_rb).buffer IN
       /\ Len(buffer) <= ClampedCapacity
       /\ ring_call.op = "push"
          => IF Len(ring_call.before) = ClampedCapacity
             THEN /\ ring_call.returned = Some(ring_call.before[1])
                  /\ buffer = Append(Tail(ring_call.before), ring_call.item)
             ELSE /\ ring_call.returned = None
                  /\ buffer = Append(ring_call.before, ring_call.item)
       /\ ring_call.op = "replace_last"
          => /\ Len(buffer) = Len(ring_call.before)
             /\ ring_call.before = <<>>
                => buffer = <<>> /\ ring_call.returned = None

\* a push on a full buffer of two bars has evicted and returned the oldest
C32_Witness ==
    /\ ring_rb # None
    /\ ring_call.op = "push"
    /\ Len(ring_call.before) = ClampedCapacity
    /\ Len(ring_call.before) >= 2
    /\ ring_call.returned = Some(ring_call.before[1])
    /\ ring_call.before[1] # ring_call.before[2]

\* ------------------------------------------------------------------------
\* Properties of the warmup of the Engine together with the History
\* Service (SpecWarmupFair)
\* ------------------------------------------------------------------------

\* no fetch has failed, no queue is closed and every task runs
WarmupHealthy ==
    /\ hist_failed = {}
    /\ history_open
    /\ ui_open
    /\ hist_state = "running"
    /\ engine_state = "running"

\* every pair of the active config has received a live bar since the last
\* Reboot or Config
AllPairsHaveBar == IsSome(config) /\ warmup_pending = Some({})

\* every calculator of every pair of the active config is Ready
AllCalculatorsReady ==
    /\ IsSome(config)
    /\ \A k \in DOMAIN rsi : k[1] \in ConfigPairs(Unwrap(config)) => rsi[k].stage = "Ready"
    /\ \A k \in DOMAIN vol : k[1] \in ConfigPairs(Unwrap(config)) => vol[k].stage = "Ready"

\* C33, first half: once every pair of the active config has received a
\* live bar, every calculator of every configured pair is eventually Ready,
\* unless a fetch fails, a queue is closed or a Reboot or Config follows.
C33_AllEventuallyReady ==
    \A e \in 0..MaxEpoch :
        (WarmupHealthy /\ epoch = e /\ AllPairsHaveBar)
        ~> (AllCalculatorsReady \/ epoch # e \/ ~WarmupHealthy)

\* C33, second half: a value a calculator has returned is taken by a flush
\* into a batch for the Presentation sink (the flush sends the whole of
\* pending_results), unless a queue is closed or a task has ended.
C33_ValuesEventuallySent ==
    (WarmupHealthy /\ pending_results # <<>>)
    ~> (pending_results = <<>> \/ ~WarmupHealthy)

\* C33: warmup completes and the values of Ready calculators reach the
\* Presentation sink.
\* (Violated: the History Service builds the bundle under the config it
\* holds, which need not be the Engine's; the calculators of the keys the
\* bundle lacks stay in WarmUp.)
C33_WarmupCompletes == C33_AllEventuallyReady /\ C33_ValuesEventuallySent

\* ------------------------------------------------------------------------
\* Properties of the bounded queues (SpecBackpressureFair)
\* ------------------------------------------------------------------------

\* C34: the receive loop of the History Service has no send to the Engine
\* in it (only the jobs it spawns send), so an Engine waiting in
\* send_warmup on a full history queue eventually leaves the send, and a
\* job waiting to send its bundle on a full Engine queue is eventually
\* served, as long as the Presentation sink keeps consuming.
C34_NoDeadlock ==
    /\ (bp_pc = "send_warmup") ~> (bp_pc # "send_warmup")
    /\ \A w \in BpJobs : (bp_workers[w] = "sending") ~> (bp_workers[w] # "sending")

\* the Engine waits in send_warmup on a full history queue while a job
\* waits to send its bundle on a full Engine queue
C34_Witness ==
    /\ bp_pc = "send_warmup"
    /\ bp_hist = "ready"
    /\ Len(bp_history_q) = BpQueueCap
    /\ Len(bp_engine_q) = BpQueueCap
    /\ \E w \in BpJobs : bp_workers[w] = "sending"

\* ------------------------------------------------------------------------
\* Properties of the Rsi across a period boundary (SpecBoundary)
\* ------------------------------------------------------------------------

\* a live bar reaches a Ready Rsi that has a previous_bar and a window with
\* a last bar
C35_Case ==
    /\ win_calc # None
    /\ win_calls' = win_calls + 1
    /\ win_call'.op = "update"
    /\ Unwrap(win_calc).kind = "Rsi"
    /\ Unwrap(win_calc).stage = "Ready"
    /\ Unwrap(win_calc).previous_bar # None
    /\ Unwrap(win_calc).window_1m_bars # None
    /\ back(Unwrap(Unwrap(win_calc).window_1m_bars)) # None

\* C35: a bar that opens a later period of the timeframe than the last bar
\* of the window advances {close, avg_gain, avg_loss} by one Wilder step
\* from the close of that last bar, and any other bar leaves them as they
\* are, a bar of the last minute of the old period that arrives after the
\* clock has entered the new period included.
C35_OneWilderStepPerBoundary ==
    [][C35_Case =>
        LET c == Unwrap(win_calc)
            bar == win_call'.bar
            last == Unwrap(back(Unwrap(c.window_1m_bars)))
            prev == Unwrap(c.previous_bar)
            diff == last.close - prev.close
            crossing == nearest_ms(c.tf, last.open_time) < nearest_ms(c.tf, bar.open_time)
        IN Unwrap(win_calc').previous_bar =
              IF crossing
              THEN Some([close |-> last.close,
                         avg_gain |-> Smooth(prev.avg_gain, IF diff > 0 THEN diff ELSE 0,
                                             c.period),
                         avg_loss |-> Smooth(prev.avg_loss, IF diff < 0 THEN -diff ELSE 0,
                                             c.period)])
              ELSE c.previous_bar]_vars

\* ------------------------------------------------------------------------
\* Frame of a bar (Spec)
\* ------------------------------------------------------------------------

\* the keys of `pair` for the enabled timeframes of `kind` in the config
EnabledKeys(cfg, pair, kind) ==
    IF cfg = None THEN {}
    ELSE LET c == Unwrap(cfg) IN
         IF kind = "Rsi"
         THEN IF c.rsi_enabled
              THEN {Key(pair, c.rsi_timeframes[i], kind) : i \in 1..Len(c.rsi_timeframes)}
              ELSE {}
         ELSE IF c.vol_enabled
              THEN {Key(pair, c.vol_timeframes[i], kind) : i \in 1..Len(c.vol_timeframes)}
              ELSE {}

\* C36: a bar of pair p that the Engine handles updates exactly the
\* calculators (p, tf, kind) of the enabled (kind, tf) of the active
\* config, each by one Indicator::update, those that did not exist being
\* created in stage New and left in WarmUp; every other calculator, and
\* the membership of every other pair in warmup_pending, stay as they are.
C36_BarTouchesOnlyItsPair ==
    [][\A pair \in PairNames :
          EngineKlineOf(pair) /\ engine_state' = "running" =>
             LET rk == EnabledKeys(config, pair, "Rsi")
                 vk == EnabledKeys(config, pair, "Volatility")
             IN /\ DOMAIN rsi' = DOMAIN rsi \cup rk
                /\ DOMAIN vol' = DOMAIN vol \cup vk
                /\ \A k \in rk :
                      /\ rsi'[k] = RsiUpdate(IF k \in DOMAIN rsi THEN rsi[k] ELSE RsiNew).calc
                      /\ k \notin DOMAIN rsi => rsi'[k].stage = "WarmUp"
                /\ \A k \in vk :
                      /\ vol'[k] = VolUpdate(IF k \in DOMAIN vol THEN vol[k] ELSE VolNew).calc
                      /\ k \notin DOMAIN vol => vol'[k].stage = "WarmUp"
                /\ \A k \in DOMAIN rsi \ rk : rsi'[k] = rsi[k]
                /\ \A k \in DOMAIN vol \ vk : vol'[k] = vol[k]
                /\ \A q \in PairNames \ {pair} :
                      (warmup_pending' # None /\ q \in Unwrap(warmup_pending'))
                      = (warmup_pending # None /\ q \in Unwrap(warmup_pending))]_vars

\* the bars of two pairs have been handled: the calculator of one pair is
\* primed and the calculator of the other, built later, is still in WarmUp
C36_Witness ==
    \E kx \in DOMAIN vol, ky \in DOMAIN vol :
       /\ kx[1] # ky[1]
       /\ vol[kx].stage = "Ready"
       /\ vol[ky].stage = "WarmUp"
       /\ warmup_pending = Some({})

\* ------------------------------------------------------------------------
\* Properties of a bundle applied to a calculator (SpecReprime)
\* ------------------------------------------------------------------------

\* the open_time of the first minute of the window update_khist builds
C37_WindowStart(c, now_ms) ==
    IF c.kind = "Rsi" THEN nearest_ms(c.tf, now_ms)
    ELSE nearest_ms("M1", now_ms) - (window_minutes(c.tf) - 1) * window_millis("M1")

\* live bars the calculator has received and still holds: the bars of its
\* pre-warmup buffer, and the bars of its window that are not closed (every
\* bar of a bundle is closed)
C37_LiveReceived(c) ==
    Range(c.buffer.buffer)
    \cup (IF c.window_1m_bars = None THEN {}
          ELSE {bar \in Range(Unwrap(c.window_1m_bars).buffer) : ~bar.closed})

\* C37: whenever a bundle entry is applied, at the first priming or to a
\* Ready calculator, every live bar the calculator has received for a
\* minute of the rebuilt window is in the rebuilt window.
C37_LiveBarsPreferred ==
    [][win_calc # None /\ win_call' # win_call /\ win_call'.op = "update_khist" =>
        LET c == Unwrap(win_calc)
            start == C37_WindowStart(c, win_now)
        IN \A bar \in C37_LiveReceived(c) :
              (/\ start <= bar.open_time
               /\ bar.open_time < start + window_minutes(c.tf) * window_millis("M1"))
              => bar \in Range(WindowBars(win_calc'))]_vars

\* ------------------------------------------------------------------------
\* Config delivery over separate queues (SpecWarmup)
\* ------------------------------------------------------------------------

\* the keys of the entries of a bundle
C38_BundleKeys(event) ==
    {Key(event[i].pair, event[i].indicator_tf, event[i].indicator) : i \in 1..Len(event)}

\* C38: each bundle the Engine applies holds entries for exactly the
\* (kind, timeframe) keys enabled in the Engine's active config, so that
\* every entry finds its calculator, in every interleaving of the Config
\* deliveries to the Engine and to the History Service with live bars and
\* HistoryRequests.
C38_BundleMatchesActiveConfig ==
    [][(engine_state = "running" /\ hist_out # <<>> /\ hist_out' = Tail(hist_out)) =>
        LET bundle == Head(hist_out) IN
        /\ C38_BundleKeys(bundle.event)
              = EnabledKeys(config, bundle.pair, "Rsi")
                \cup EnabledKeys(config, bundle.pair, "Volatility")
        /\ engine_state' = "running"]_vars

\* ------------------------------------------------------------------------
\* A HistoryRequest before any Config (SpecBackpressureFair)
\* ------------------------------------------------------------------------

\* C39: a HistoryRequest taken by the History Service before any Config
\* makes its receive loop return without spawning a job; after that no
\* message is queued or taken and no job is spawned, and the Engine's next
\* HistoryRequest send fails and ends the Engine.
C39_RequestBeforeConfigEndsBoth ==
    /\ [][(/\ bp_hist = "none"
           /\ bp_history_q # <<>>
           /\ Head(bp_history_q) = "WarmUp"
           /\ bp_history_q' # bp_history_q
           /\ Len(bp_history_q') <= Len(bp_history_q))
          => bp_hist' = "returned" /\ bp_workers' = bp_workers]_vars
    /\ [][bp_hist = "returned" =>
            /\ bp_hist' = "returned"
            /\ bp_history_q' = <<>>
            /\ \A w \in BpJobs : bp_workers[w] = "idle" => bp_workers'[w] = "idle"
            /\ (bp_pc = "send_warmup" /\ bp_pc' # bp_pc => bp_pc' = "ended")]_vars
    /\ (bp_hist = "returned" /\ bp_pc = "send_warmup") ~> (bp_pc = "ended")

\* the History Service has returned on a request without config, and the
\* Engine has ended on its next HistoryRequest send
C39_Witness ==
    /\ bp_hist = "returned"
    /\ bp_pc = "ended"
    /\ \A w \in BpJobs : bp_workers[w] = "idle"

\* ------------------------------------------------------------------------
\* Injectivity of the lookup (SpecLookup)
\* ------------------------------------------------------------------------

\* the triples a caller may ask the lookup of SpecLookup for
C40_Triples ==
    [pair : PairNames, indicator : IndicatorNames, timeframe : LookupTimeframes \cup {"M1"}]

\* C40: the slot index that index() returned for a triple is returned for
\* no other triple (pair, kind, tf) of the same config, whatever the pair
\* list, a list that names a pair more than once included.
C40_IndexInjective ==
    (IsSome(lk_result) /\ IsSome(Unwrap(lk_result))) =>
        \A lookup \in {ConfigIndexLookup(Unwrap(lk_config))} :
           \A t \in C40_Triples \ {Unwrap(lk_query)} :
              Index(lookup, t.pair, t.indicator, t.timeframe) # Unwrap(lk_result)

\* index() has answered for the second distinct pair of a list that
\* repeats its first pair, under a config with at least two slots a pair
C40_Witness ==
    /\ IsSome(lk_result)
    /\ IsSome(Unwrap(lk_result))
    /\ Len(Unwrap(lk_config).pairs) >= 3
    /\ Unwrap(lk_config).pairs[1] = Unwrap(lk_config).pairs[2]
    /\ Unwrap(lk_query).pair # Unwrap(lk_config).pairs[1]
    /\ PairStride(ConfigIndexLookup(Unwrap(lk_config))) >= 2

====
